---- MODULE Spec2Model ----
(***************************************************************************)
(* Model of the live text-to-speech session of the text-to-speech service  *)
(* (src/text-to-speech/src/ws_handler.rs) with the sentence splitter       *)
(* (phonemizer.rs) and the tokenizer / synthesis front end (inference.rs). *)
(* The batch job engine (handlers.rs) and its sweeper (cleanup.rs) are     *)
(* modelled beside it, over the jobs table and the storage directory.      *)
(*                                                                         *)
(* A text is a sequence of characters; a character is a one-character      *)
(* string.  Characters outside ASCII are written by their code point:      *)
(* "U+3002" is the ideographic full stop, "U+FF01" and "U+FF1F" the        *)
(* full-width exclamation and question marks.                              *)
(***************************************************************************)
EXTENDS Integers, Sequences, FiniteSets, Bags, TLC

(***************************************************************************)
(* Bounds of the model.                                                    *)
(***************************************************************************)
\* frames the client sends in one session, the auth frame included
MaxMsgs == 3
\* frames written by the client and not yet read by the server
MaxInbox == 2
\* audio chunks of one synthesized sentence
MaxChunks == 2
\* entries of a voices archive
MaxEntries == 2
\* characters of a phoneme string given to the tokenizer
MaxPhonemes == 3
\* blocking threads that call KokoroModel::synthesize at the same time
MaxThreads == 2
\* characters of a text given to the sentence splitter
MaxText == 4
\* batch jobs accepted in one run
MaxJobs == 2
\* days the clock of the database runs
MaxNow == 8

(***************************************************************************)
(* Program constants.                                                      *)
(***************************************************************************)
SAMPLE_RATE == 24000
MAX_STYLE_TOKENS == 510
EMBEDDING_DIM == 256
\* cleanup.rs:7   INTERVAL '7 days'
TTL_DAYS == 7

\* ws_handler.rs:331   (SAMPLE_RATE as usize / 10).max(1)
chunk_samples == IF SAMPLE_RATE \div 10 > 1 THEN SAMPLE_RATE \div 10 ELSE 1

(***************************************************************************)
(* Text helpers: Rust's str::trim, trim_end, ends_with, join.              *)
(***************************************************************************)
WhiteSpace == {" ", "\t", "\n", "\r"}

RECURSIVE trim_start(_)
trim_start(s) ==
    IF s = <<>> THEN <<>>
    ELSE IF Head(s) \in WhiteSpace THEN trim_start(Tail(s)) ELSE s

RECURSIVE trim_end(_)
trim_end(s) ==
    IF s = <<>> THEN <<>>
    ELSE IF s[Len(s)] \in WhiteSpace THEN trim_end(SubSeq(s, 1, Len(s) - 1)) ELSE s

trim(s) == trim_end(trim_start(s))

ends_with(s, c) == s # <<>> /\ s[Len(s)] = c

RECURSIVE join(_, _)
join(strs, sep) ==
    IF strs = <<>> THEN <<>>
    ELSE IF Len(strs) = 1 THEN strs[1]
    ELSE strs[1] \o sep \o join(Tail(strs), sep)

(***************************************************************************)
(* phonemizer.rs: split_sentences.  One pass over the characters; a        *)
(* sentence is emitted at every sentence-ending character, and trailing    *)
(* text is emitted as a last sentence.                                     *)
(***************************************************************************)
SentenceEnders == {".", "!", "?", "U+3002", "U+FF01", "U+FF1F"}

RECURSIVE split_scan(_, _, _, _)
split_scan(text, i, current, sentences) ==
    IF i > Len(text)
    THEN LET trimmed == trim(current)
         IN  IF trimmed # <<>> THEN Append(sentences, trimmed) ELSE sentences
    ELSE LET cur == Append(current, text[i])
         IN  IF text[i] \in SentenceEnders
             THEN LET trimmed == trim(cur)
                  IN  split_scan(text, i + 1, <<>>,
                                 IF trimmed # <<>> THEN Append(sentences, trimmed)
                                                   ELSE sentences)
             ELSE split_scan(text, i + 1, cur, sentences)

split_sentences(text) == split_scan(text, 1, <<>>, <<>>)

(***************************************************************************)
(* inference.rs: the vocabulary (the entries of build_vocab, a character   *)
(* outside ASCII named by its code point) and phonemes_to_tokens.          *)
(***************************************************************************)
VocabEntries == {
    <<";", 1>>, <<":", 2>>, <<",", 3>>, <<".", 4>>, <<"!", 5>>,
    <<"?", 6>>, <<"U+2014", 9>>, <<"U+2026", 10>>, <<"\"", 11>>, <<"(", 12>>,
    <<")", 13>>, <<"U+201C", 14>>, <<"U+201D", 15>>, <<" ", 16>>, <<"U+0303", 17>>,
    <<"U+02A3", 18>>, <<"U+02A5", 19>>, <<"U+02A6", 20>>, <<"U+02A8", 21>>, <<"U+1D5D", 22>>,
    <<"U+AB67", 23>>, <<"A", 24>>, <<"I", 25>>, <<"O", 31>>, <<"Q", 33>>,
    <<"S", 35>>, <<"T", 36>>, <<"W", 39>>, <<"Y", 41>>, <<"U+1D4A", 42>>,
    <<"a", 43>>, <<"b", 44>>, <<"c", 45>>, <<"d", 46>>, <<"e", 47>>,
    <<"f", 48>>, <<"h", 50>>, <<"i", 51>>, <<"j", 52>>, <<"k", 53>>,
    <<"l", 54>>, <<"m", 55>>, <<"n", 56>>, <<"o", 57>>, <<"p", 58>>,
    <<"q", 59>>, <<"r", 60>>, <<"s", 61>>, <<"t", 62>>, <<"u", 63>>,
    <<"v", 64>>, <<"w", 65>>, <<"x", 66>>, <<"y", 67>>, <<"z", 68>>,
    <<"U+0251", 69>>, <<"U+0250", 70>>, <<"U+0252", 71>>, <<"U+00E6", 72>>, <<"U+03B2", 75>>,
    <<"U+0254", 76>>, <<"U+0255", 77>>, <<"U+00E7", 78>>, <<"U+0256", 80>>, <<"U+00F0", 81>>,
    <<"U+02A4", 82>>, <<"U+0259", 83>>, <<"U+025A", 85>>, <<"U+025B", 86>>, <<"U+025C", 87>>,
    <<"U+025F", 90>>, <<"U+0261", 92>>, <<"U+0265", 99>>, <<"U+0268", 101>>, <<"U+026A", 102>>,
    <<"U+029D", 103>>, <<"U+026F", 110>>, <<"U+0270", 111>>, <<"U+014B", 112>>, <<"U+0273", 113>>,
    <<"U+0272", 114>>, <<"U+0274", 115>>, <<"U+00F8", 116>>, <<"U+0278", 118>>, <<"U+03B8", 119>>,
    <<"U+0153", 120>>, <<"U+0279", 123>>, <<"U+027E", 125>>, <<"U+027B", 126>>, <<"U+0281", 128>>,
    <<"U+027D", 129>>, <<"U+0282", 130>>, <<"U+0283", 131>>, <<"U+0288", 132>>, <<"U+02A7", 133>>,
    <<"U+028A", 135>>, <<"U+028B", 136>>, <<"U+028C", 138>>, <<"U+0263", 139>>, <<"U+0264", 140>>,
    <<"U+03C7", 142>>, <<"U+028E", 143>>, <<"U+0292", 147>>, <<"U+0294", 148>>, <<"U+02C8", 156>>,
    <<"U+02CC", 157>>, <<"U+02D0", 158>>, <<"U+02B0", 162>>, <<"U+02B2", 164>>, <<"U+2193", 169>>,
    <<"U+2192", 171>>, <<"U+2197", 172>>, <<"U+2198", 173>>, <<"U+1D7B", 177>>}

VocabChars == {e[1] : e \in VocabEntries}

VocabTable == [c \in VocabChars |-> (CHOOSE e \in VocabEntries : e[1] = c)[2]]

\* vocab.get(&c), for a character of the vocabulary
vocab(c) == VocabTable[c]

vocab_hits_keep_unknown(phonemes) ==
    [k \in 1..Len(phonemes) |->
        IF phonemes[k] \in VocabChars THEN vocab(phonemes[k]) ELSE 0]

\* the loop of phonemes_to_tokens: hits append their id, misses are skipped
vocab_hits(phonemes) ==
    LET hits == SelectSeq(phonemes, LAMBDA c : c \in VocabChars)
    IN  [k \in 1..Len(hits) |-> vocab(hits[k])]

phonemes_to_tokens_keep_unknown(phonemes) ==
    <<0>> \o vocab_hits_keep_unknown(phonemes) \o <<0>>

phonemes_to_tokens(phonemes) == <<0>> \o vocab_hits(phonemes) \o <<0>>

(***************************************************************************)
(* inference.rs: KokoroModel::synthesize.  The result of a call is one of  *)
(* the members of synthesize(phonemes, voice): the checks on the token     *)
(* count and the voice are computed, the run of the ONNX session is a      *)
(* choice between a failure and an audio of some number of samples.        *)
(***************************************************************************)
Ok(samples) == [ok |-> TRUE, samples |-> samples, err |-> ""]
Err(e) == [ok |-> FALSE, samples |-> 0, err |-> e]

\* a .npy file: its length in bytes, whether it starts with the magic number,
\* its major version and the header length it states
Npy(len, magic, major, header_len) ==
    [len |-> len, magic |-> magic, major |-> major, header_len |-> header_len]

Floats(n) == [ok |-> TRUE, floats |-> n, err |-> ""]
NpyErr(e) == [ok |-> FALSE, floats |-> 0, err |-> e]

\* parse_npy_f32: the number of f32 values after the header
parse_npy_f32(data) ==
    IF data.len < 10 THEN NpyErr("NPY file too short")
    ELSE IF ~data.magic THEN NpyErr("Invalid NPY magic number")
    ELSE IF data.major # 1 /\ data.len < 12
    THEN NpyErr("NPY v2 file too short for header")
    ELSE LET header_offset == IF data.major = 1 THEN 10 ELSE 12
             data_start == header_offset + data.header_len
         IN  IF data_start > data.len
             THEN NpyErr("NPY header extends beyond file")
             ELSE Floats((data.len - data_start) \div 4)

\* an archive entry: the voice (the entry name without ".npy") and its file
Entry(name, npy) == [voice |-> name, npy |-> npy]

NoEmbeddings == [v \in {} |-> 0]
Unloaded == [state |-> "unloaded", embeddings |-> NoEmbeddings]
LoadFailed == [state |-> "failed", embeddings |-> NoEmbeddings]
Loaded(embeddings) == [state |-> "loaded", embeddings |-> embeddings]

\* the style matrix built from a file of n floats has n / EMBEDDING_DIM rows of
\* EMBEDDING_DIM floats; a matrix is represented by its number of rows
style_matrix(floats) == floats \div EMBEDDING_DIM

\* the loop of VoiceEmbeddings::load over the entries of the archive
RECURSIVE load_entries(_, _, _)
load_entries(archive, i, embeddings) ==
    IF i > Len(archive) THEN Loaded(embeddings)
    ELSE LET r == parse_npy_f32(archive[i].npy)
         IN  IF ~r.ok THEN LoadFailed
             ELSE load_entries(archive, i + 1,
                      [v \in DOMAIN embeddings \cup {archive[i].voice} |->
                          IF v = archive[i].voice THEN style_matrix(r.floats)
                                                  ELSE embeddings[v]])

load(archive) == load_entries(archive, 1, NoEmbeddings)

\* Option<Vec<f32>>: row `row` of the matrix of `v`; or the panic of an index
\* out of range
Some(v, row) == [kind |-> "some", voice |-> v, row |-> row]
None == [kind |-> "none", voice |-> "", row |-> -1]
Panic == [kind |-> "panic", voice |-> "", row |-> -1]

\* VoiceEmbeddings::get.  With a matrix of no rows, matrix.len() - 1 overflows
\* (checked build) or the index is out of range (unchecked build): a panic
get(embeddings, v, token_len) ==
    IF v \notin DOMAIN embeddings THEN None
    ELSE LET rows == embeddings[v]
         IN  IF rows = 0 THEN Panic
             ELSE Some(v, IF token_len < rows - 1 THEN token_len ELSE rows - 1)

\* the voices file the service ships: (510, 1, 256) floats per voice
StandardNpy == Npy(10 + 118 + 4 * MAX_STYLE_TOKENS * EMBEDDING_DIM, TRUE, 1, 118)
StandardArchive == <<Entry("af_heart", StandardNpy)>>
StandardVoices == load(StandardArchive)

VoiceBank == DOMAIN StandardVoices.embeddings

\* sample counts the ONNX session may return: one partial chunk; whole chunks
\* only; whole chunks and a partial one
ModelOutputs ==
    {1, (MaxChunks - 1) * chunk_samples, (MaxChunks - 1) * chunk_samples + 1}

\* a call that returns r without running the model; a call that goes on to it
Returns(r) == [done |-> TRUE, result |-> r]
Proceeds == [done |-> FALSE, result |-> Ok(0)]

synthesize_checks_no_minimum(seq_len, known) ==
    IF seq_len > MAX_STYLE_TOKENS THEN Returns(Err("Token sequence too long"))
    ELSE IF ~known THEN Returns(Err("Unknown voice"))
    ELSE Proceeds

synthesize_checks_no_limit(seq_len, known) ==
    IF seq_len < 3 THEN Returns(Ok(0))
    ELSE IF ~known THEN Returns(Err("Unknown voice"))
    ELSE Proceeds

\* the checks of synthesize on the token count and on the voice (known: the
\* bank has the voice), which come before the tensors and the session
synthesize_checks(seq_len, known) ==
    IF seq_len < 3 THEN Returns(Ok(0))
    ELSE IF seq_len > MAX_STYLE_TOKENS THEN Returns(Err("Token sequence too long"))
    ELSE IF ~known THEN Returns(Err("Unknown voice"))
    ELSE Proceeds

\* the results of session.run and of the extraction of the "audio" output:
\* the run fails, the outputs hold no "audio", the tensor is not of f32, or
\* the audio is extracted, which may be empty
session_run ==
    {Err("ONNX inference failed"), Err("No audio output from model"),
     Err("Failed to extract audio tensor")}
    \cup {Ok(n) : n \in {0} \cup ModelOutputs}

\* KokoroModel::synthesize as the sentence loop sees it, in a process where
\* no run panics, so that the mutex of the session is never poisoned: the
\* checks, then the results of the run
synthesize(phonemes, voice) ==
    LET seq_len == Len(phonemes_to_tokens(phonemes))
        c == synthesize_checks(seq_len, voice \in VoiceBank)
    IN  IF c.done THEN {c.result} ELSE session_run

(***************************************************************************)
(* phonemizer.rs: phonemize runs the external espeak-ng.  Its result is a  *)
(* failure or one of a few phoneme strings: the empty string, a string of  *)
(* characters outside the vocabulary, a string of vocabulary characters,   *)
(* and a string that tokenizes to one token more than the style matrix has *)
(* rows.                                                                   *)
(***************************************************************************)
LongPhonemes == [i \in 1..(MAX_STYLE_TOKENS - 1) |-> "a"]

PhonemeOutputs == {<<>>, <<"@">>, <<"a", "b">>, LongPhonemes}

phonemize(text) ==
    IF trim(text) = <<>> THEN {[ok |-> TRUE, phonemes |-> <<>>]}
    ELSE {[ok |-> FALSE, phonemes |-> <<>>]}
         \cup {[ok |-> TRUE, phonemes |-> p] : p \in PhonemeOutputs}

(***************************************************************************)
(* ws_handler.rs: the frames on the socket.                                *)
(***************************************************************************)
\* ServerMessage, and the binary audio frame (sentence index, samples)
\* message: the text of an error, as <<prefix, cause>>
Frame(type, idx, samples, message) ==
    [type |-> type, sentence_index |-> idx, samples |-> samples, message |-> message]

AuthOk == Frame("auth_ok", -1, 0, <<>>)
AuthError(message) == Frame("auth_error", -1, 0, message)
WordTiming(idx) == Frame("word_timing", idx, 0, <<>>)
AudioChunk(idx, n) == Frame("audio", idx, n, <<>>)
SentenceDone(idx) == Frame("sentence_done", idx, 0, <<>>)
Done == Frame("done", -1, 0, <<>>)
Stopped == Frame("stopped", -1, 0, <<>>)
Error(message) == Frame("error", -1, 0, message)

\* ClientMessage, and the frames that are no ClientMessage
ClientFrame(type, text, voice, token) ==
    [type |-> type, text |-> text, voice |-> voice, token |-> token]

Hello_ == <<"H", "e", "l", "l", "o", " ">>
world_Foo == <<"w", "o", "r", "l", "d", ".", " ", "F", "o", "o">>
Hello_world == <<"H", "e", "l", "l", "o", " ", "w", "o", "r", "l", "d", ".">>
Foo == <<"F", "o", "o">>

SynthTexts == {<<>>, <<"a", ".", " ", "b", ".">>}
AppendTexts == {Hello_, world_Foo, <<"a", ".", " ", "b", ":">>, <<" ">>}

\* what socket.recv() yields besides a frame: None at the end of the stream,
\* Some(Err(_)) on a receive error
StreamEnds == {"eof", "recv_error"}

ClientFrames ==
    {ClientFrame("auth", <<>>, "", tok) : tok \in {"good", "bad"}}
    \cup {ClientFrame("synthesize", t, "af_heart", "") : t \in SynthTexts}
    \cup {ClientFrame("synthesize", <<"a", ".">>, "nobody", "")}
    \cup {ClientFrame("synthesize_append", t, "af_heart", "") : t \in AppendTexts}
    \cup {ClientFrame(ty, <<>>, "", "") : ty \in {"stop", "binary", "invalid", "close"}}
    \cup {ClientFrame(ty, <<>>, "", "") : ty \in StreamEnds}

(***************************************************************************)
(* Calls into inference.rs.                                                *)
(***************************************************************************)
Threads == 1..MaxThreads

\* a call of KokoroModel::synthesize on a blocking thread: where it stands
\* ("idle", "lock": about to lock the session, "run": holds the session,
\* "returned"), its token count and voice, its result, and whether it ran
\* the session
Call(at, seq_len, v, result, ran) ==
    [pc |-> at, seq_len |-> seq_len, voice |-> v, result |-> result, ran |-> ran]
Idle == Call("idle", 0, "", Ok(0), FALSE)

NoCall == [fn |-> "none", arg |-> <<>>, value |-> <<>>]

\* a table without rows
NoRows == [id \in {} |-> 0]

(***************************************************************************)
(* State: one live connection, and the process-wide model.                 *)
(***************************************************************************)
VARIABLES
    pc,               \* where handle_connection stands: "auth", "recv",
                      \* "sentence" (top of the sentence loop), "chunk" (top of
                      \* the chunk loop), "closed"
    inbox,            \* frames the client wrote that the server has not read
    nsent,            \* number of frames the client wrote
    wire,             \* frames the server sent, in order
    model_loaded,     \* state.kokoro_model is Some
    stop_tx,          \* value held by the watch channel
    sentence_counter,
    pending_text,
    branch,           \* the branch of the message loop that called handle_synthesize
    sentences,        \* handle_synthesize: the sentences of the request
    pos,              \* position in sentences of the next loop iteration
    voice,
    sentence_idx,
    phonemes,         \* phonemes of the current sentence
    audio_left,       \* samples of the current sentence not yet sent
    reset_at,         \* history: length of wire at the last full synthesize
    silent,           \* history: indices taken since then by a sentence that sent nothing
    stop_arrival,     \* history: length of wire when the client wrote a stop
                      \* during a request that is still running (-1: none)
    voices,           \* KokoroModel.voices: the result of VoiceEmbeddings::load
    session_lock,     \* KokoroModel.session: the thread holding the mutex, 0 if free
    calls,            \* the calls of KokoroModel::synthesize, one per blocking thread
    ret,              \* the last call of a function or handler and what it returned
    jobs,             \* the jobs table: job id -> row
    files,            \* the paths of the files that exist
    workers,          \* the background task of each job: where it stands
                      \* ("unspawned": the job has none)
    now,              \* the clock of the database, in days
    gone,             \* -1 while the peer of the socket is there; once it is
                      \* gone, the value sentence_counter had at that moment
                      \* if it went during the request that runs, -2 if not
    jwks_cache,       \* AppState.jwks_cache: the keys and the age of the last fetch
    tasks             \* the handlers and tasks that are between two awaits:
                      \* where each stands and what it holds in its locals

vars == <<pc, inbox, nsent, wire, model_loaded, stop_tx, sentence_counter,
          pending_text, branch, sentences, pos, voice, sentence_idx, phonemes,
          audio_left, reset_at, silent, stop_arrival, voices, session_lock, calls,
          ret, jobs, files, workers, now, gone, jwks_cache, tasks>>

locals == <<branch, sentences, pos, voice, sentence_idx, phonemes, audio_left>>
\* the process-wide model, shared by the connections
kokoro == <<model_loaded, voices, session_lock, calls, ret>>
\* the batch service: the jobs table, the storage, the background tasks
batch == <<jobs, files, workers, now>>
\* the synthesis engine without the record of the last call
engine == <<model_loaded, voices, session_lock, calls>>
\* all that the connections share
service == <<kokoro, batch, jwks_cache, tasks>>
\* one live connection
connection == <<pc, inbox, nsent, wire, stop_tx, sentence_counter, pending_text,
                branch, sentences, pos, voice, sentence_idx, phonemes, audio_left,
                reset_at, silent, stop_arrival, gone>>
session == <<stop_tx, sentence_counter, pending_text>>
history == <<reset_at, silent, stop_arrival>>

\* the batch endpoints are not used: an empty table, an empty storage
NoBatch ==
    /\ jobs = NoRows
    /\ files = {}
    /\ workers = NoRows
    /\ now = 0

\* a connection that was just accepted
Accepted ==
    /\ pc = "auth"
    /\ inbox = <<>>
    /\ nsent = 0
    /\ wire = <<>>
    /\ stop_tx = FALSE
    /\ sentence_counter = 0
    /\ pending_text = <<>>
    /\ branch = "none"
    /\ sentences = <<>>
    /\ pos = 1
    /\ voice = ""
    /\ sentence_idx = 0
    /\ phonemes = <<>>
    /\ audio_left = 0
    /\ reset_at = 0
    /\ silent = {}
    /\ stop_arrival = -1
    /\ gone = -1

\* a cache that was never filled
NoCache == [keys |-> [kid \in {} |-> 0], last_fetched |-> <<>>]

\* no handler is between two awaits, no background task has a result to
\* write, no token is being validated
NoTasks ==
    [generate_speech |-> <<>>, check_status |-> <<>>, run_cleanup |-> <<>>,
     process_tts |-> [id \in {} |-> 0], validate_token |-> EmptyBag]

\* the process has just started
Started ==
    /\ jwks_cache = NoCache
    /\ tasks = NoTasks

\* one connection, to a process whose model is loaded or failed to load
Init ==
    /\ Accepted
    /\ Started
    /\ model_loaded \in BOOLEAN
    /\ voices = StandardVoices
    /\ session_lock = 0
    /\ calls = [t \in Threads |-> Idle]
    /\ ret = NoCall
    /\ NoBatch

InRequest == pc \in {"sentence", "chunk"}

\* the peer of the socket is gone
peer_gone == gone # -1

\* socket.send: the frames reach the wire unless the peer is gone, when the
\* send fails
send(w, frames) == IF peer_gone THEN w ELSE w \o frames

\* the client writes a frame to the socket; after a close, and after the
\* stream has ended, nothing more arrives
ClientSend ==
    /\ pc # "closed"
    /\ ~peer_gone
    /\ nsent < MaxMsgs
    /\ Len(inbox) < MaxInbox
    /\ \A i \in 1..Len(inbox) : inbox[i].type \notin {"close"} \cup StreamEnds
    /\ \E m \in ClientFrames :
         /\ inbox' = Append(inbox, m)
         /\ stop_arrival' = IF m.type = "stop" /\ InRequest /\ stop_arrival = -1
                            THEN Len(wire) ELSE stop_arrival
    /\ nsent' = nsent + 1
    /\ UNCHANGED <<pc, wire, service, gone, session, locals, reset_at, silent>>

(***************************************************************************)
(* wait_for_auth and the head of handle_connection.                        *)
(***************************************************************************)
wait_for_auth_any_token(m) ==
    IF m.type = "eof" THEN Err("Connection closed")
    ELSE IF m.type = "recv_error" THEN Err("Receive error")
    ELSE IF m.type \in {"binary", "close"} THEN Err("First message must be text")
    ELSE IF m.type = "invalid" THEN Err("Invalid auth message")
    ELSE IF m.type = "auth" THEN Ok(0)
         ELSE Err("First message must be auth")

\* the result of wait_for_auth on what socket.recv() yields first: the end of
\* the stream, a receive error, or a frame; a frame that is not text (binary,
\* ping, pong, close) is refused; the token stands for the answer of
\* validate_token_public
wait_for_auth(m) ==
    IF m.type = "eof" THEN Err("Connection closed")
    ELSE IF m.type = "recv_error" THEN Err("Receive error")
    ELSE IF m.type \in {"binary", "close"} THEN Err("First message must be text")
    ELSE IF m.type = "invalid" THEN Err("Invalid auth message")
    ELSE IF m.type = "auth"
         THEN IF m.token = "good" THEN Ok(0) ELSE Err("Token validation failed")
         ELSE Err("First message must be auth")

\* no frame within the 10 s of wait_for_auth
AuthTimeout ==
    /\ pc = "auth"
    /\ inbox = <<>>
    /\ wire' = Append(wire, AuthError(<<"Auth timeout">>))
    /\ pc' = "closed"
    /\ UNCHANGED <<inbox, nsent, service, gone, session, locals, history>>

WaitForAuth ==
    /\ pc = "auth"
    /\ inbox # <<>>
    /\ inbox' = Tail(inbox)
    /\ LET r == wait_for_auth(Head(inbox))
       IN  IF r.ok
           THEN /\ wire' = Append(wire, AuthOk)
                /\ pc' = "recv"
           ELSE /\ wire' = Append(wire, AuthError(<<r.err>>))
                /\ pc' = "closed"
    /\ UNCHANGED <<nsent, service, gone, session, locals, history>>

(***************************************************************************)
(* handle_synthesize.                                                      *)
(***************************************************************************)
\* handle_synthesize returns to the message loop; its locals are dead
Return ==
    /\ pc' = "recv"
    /\ branch' = "none"
    /\ sentences' = <<>>
    /\ pos' = 1
    /\ voice' = ""
    /\ sentence_idx' = 0
    /\ phonemes' = <<>>
    /\ audio_left' = 0

\* the frames a branch of the message loop sends when handle_synthesize
\* returned Err(message)
request_failed_then_done(message) == <<Error(message), Done>>

request_failed_silent(message) == <<>>

request_failed(message) == <<Error(message)>>

model_check_skipped(loaded) == Ok(0)

\* state.kokoro_model.as_ref().ok_or("TTS model not loaded")?
model_check(loaded) == IF loaded THEN Ok(0) ELSE Err("TTS model not loaded")

\* the call, up to the first iteration of the sentence loop; a peer that
\* is gone by then did not go during this request
handle_synthesize(from, text, v) ==
    /\ gone' = (IF peer_gone THEN -2 ELSE -1)
    /\ IF ~model_check(model_loaded).ok
       THEN /\ wire' = send(wire, request_failed(<<model_check(model_loaded).err>>))
            /\ Return
       ELSE /\ wire' = wire
            /\ pc' = "sentence"
            /\ branch' = from
            /\ sentences' = split_sentences(text)
            /\ pos' = 1
            /\ voice' = v
            /\ UNCHANGED <<sentence_idx, phonemes, audio_left>>

next_index_stuck(counter) == counter

\* *sentence_counter += 1
next_index(counter) == counter + 1

\* one iteration of the sentence loop, up to the chunk loop; or the end of the loop
SentenceStep ==
    /\ pc = "sentence"
    /\ IF pos > Len(sentences)
       THEN /\ wire' = send(wire, <<Done>>)
            /\ Return
            /\ UNCHANGED <<sentence_counter, silent>>
       ELSE /\ sentence_counter' = next_index(sentence_counter)
            /\ IF stop_tx
               THEN /\ Return
                    /\ silent' = silent \cup {sentence_counter}
                    /\ UNCHANGED wire
               ELSE \E pr \in phonemize(sentences[pos]) :
                      IF ~pr.ok
                      THEN /\ wire' = send(wire, request_failed(<<"Phonemization failed">>))
                           /\ Return
                           /\ silent' = silent \cup {sentence_counter}
                      ELSE IF pr.phonemes = <<>>
                      THEN /\ pos' = pos + 1
                           /\ phonemes' = pr.phonemes
                           /\ silent' = silent \cup {sentence_counter}
                           /\ UNCHANGED <<pc, wire, branch, sentences, voice,
                                          sentence_idx, audio_left>>
                      ELSE \E sr \in synthesize(pr.phonemes, voice) :
                             IF ~sr.ok
                             THEN /\ wire' = send(wire, request_failed(<<"Synthesis failed", sr.err>>))
                                  /\ Return
                                  /\ silent' = silent \cup {sentence_counter}
                             ELSE IF sr.samples = 0
                             THEN /\ pos' = pos + 1
                                  /\ phonemes' = pr.phonemes
                                  /\ silent' = silent \cup {sentence_counter}
                                  /\ UNCHANGED <<pc, wire, branch, sentences, voice,
                                                 sentence_idx, audio_left>>
                             ELSE IF peer_gone
                             THEN /\ Return
                                  /\ silent' = silent \cup {sentence_counter}
                                  /\ UNCHANGED wire
                             ELSE /\ wire' = Append(wire, WordTiming(sentence_counter))
                                  /\ pc' = "chunk"
                                  /\ sentence_idx' = sentence_counter
                                  /\ phonemes' = pr.phonemes
                                  /\ audio_left' = sr.samples
                                  /\ pos' = pos + 1
                                  /\ UNCHANGED <<branch, sentences, voice, silent>>
    /\ UNCHANGED <<inbox, nsent, service, gone, stop_tx, pending_text, reset_at,
                   stop_arrival>>

sentence_complete_missing(idx) == <<>>

\* what follows the chunks of a sentence
sentence_complete(idx) == <<SentenceDone(idx)>>

\* (sentence_idx as u32).to_le_bytes()
to_le_bytes(x) ==
    <<x % 256, (x \div 256) % 256, (x \div 65536) % 256, (x \div 16777216) % 256>>

\* the payload of the binary frame of a chunk of n samples: the index bytes,
\* then n samples of four bytes each
binary_data(idx, n) == [index |-> to_le_bytes(idx), pcm |-> 4 * n, len |-> 4 + 4 * n]

chunk_len_whole(left) == left

\* the length of the next slice of audio.chunks(chunk_samples)
chunk_len(left) == IF left < chunk_samples THEN left ELSE chunk_samples

\* one iteration of the chunk loop; or its end and sentence_done
ChunkStep ==
    /\ pc = "chunk"
    /\ IF audio_left = 0 /\ ~peer_gone
       THEN /\ wire' = wire \o sentence_complete(sentence_idx)
            /\ pc' = "sentence"
            /\ UNCHANGED locals
       ELSE IF audio_left = 0 \/ stop_tx \/ peer_gone
       THEN /\ Return
            /\ UNCHANGED wire
       ELSE LET n == chunk_len(audio_left)
            IN  /\ wire' = Append(wire, AudioChunk(sentence_idx, n))
                /\ audio_left' = audio_left - n
                /\ UNCHANGED <<pc, branch, sentences, pos, voice, sentence_idx,
                               phonemes>>
    /\ UNCHANGED <<inbox, nsent, service, gone, session, history>>

(***************************************************************************)
(* The message loop of handle_connection.                                  *)
(***************************************************************************)
recv_during_request(type) ==
    /\ pc \in {"recv", "sentence", "chunk"}
    /\ inbox # <<>>
    /\ Head(inbox).type = type
    /\ inbox' = Tail(inbox)

\* socket.recv() of the message loop, which runs between two requests
Recv(type) ==
    /\ pc = "recv"
    /\ inbox # <<>>
    /\ Head(inbox).type = type
    /\ inbox' = Tail(inbox)

synthesize_no_reset(counter, pending) == [counter |-> counter, pending |-> pending]

\* the Synthesize branch: sentence_counter = 0; pending_text.clear()
synthesize_reset(counter, pending) == [counter |-> 0, pending |-> <<>>]

RecvSynthesize ==
    /\ Recv("synthesize")
    /\ sentence_counter' = synthesize_reset(sentence_counter, pending_text).counter
    /\ pending_text' = synthesize_reset(sentence_counter, pending_text).pending
    /\ handle_synthesize("synthesize", Head(inbox).text, Head(inbox).voice)
    /\ reset_at' = Len(wire)
    /\ silent' = {}
    /\ UNCHANGED <<nsent, service, stop_tx, stop_arrival>>

append_buffer_no_colon(pending, text) ==
    LET buf == pending \o text
        sents == split_sentences(buf)
        trimmed == trim_end(buf)
        ends_with_sentence == \/ ends_with(trimmed, ".")
                              \/ ends_with(trimmed, "!")
                              \/ ends_with(trimmed, "?")
    IN  IF sents = <<>> THEN [pending |-> buf, to_speak |-> <<>>]
        ELSE IF ends_with_sentence THEN [pending |-> <<>>, to_speak |-> sents]
        ELSE IF Len(sents) > 1
             THEN [pending |-> sents[Len(sents)],
                   to_speak |-> SubSeq(sents, 1, Len(sents) - 1)]
             ELSE [pending |-> buf, to_speak |-> <<>>]

\* the text the SynthesizeAppend branch keeps and the sentences it speaks
append_buffer(pending, text) ==
    LET buf == pending \o text
        sents == split_sentences(buf)
        trimmed == trim_end(buf)
        ends_with_sentence == \/ ends_with(trimmed, ".")
                              \/ ends_with(trimmed, "!")
                              \/ ends_with(trimmed, "?")
                              \/ ends_with(trimmed, ":")
                              \/ ends_with(trimmed, ";")
    IN  IF sents = <<>> THEN [pending |-> buf, to_speak |-> <<>>]
        ELSE IF ends_with_sentence THEN [pending |-> <<>>, to_speak |-> sents]
        ELSE IF Len(sents) > 1
             THEN [pending |-> sents[Len(sents)],
                   to_speak |-> SubSeq(sents, 1, Len(sents) - 1)]
             ELSE [pending |-> buf, to_speak |-> <<>>]

append_counter_reset(counter) == 0

\* the SynthesizeAppend branch: the sentence counter persists across appends
append_counter(counter) == counter

RecvSynthesizeAppend ==
    /\ Recv("synthesize_append")
    /\ sentence_counter' = append_counter(sentence_counter)
    /\ LET r == append_buffer(pending_text, Head(inbox).text)
       IN  /\ pending_text' = r.pending
           /\ IF r.to_speak # <<>>
              THEN handle_synthesize("synthesize_append", join(r.to_speak, <<" ">>),
                                     Head(inbox).voice)
              ELSE UNCHANGED <<pc, wire, gone, locals>>
    /\ UNCHANGED <<nsent, service, stop_tx, history>>

stop_resets_counter(counter, pending) == [stop_tx |-> TRUE, counter |-> 0, pending |-> <<>>]

\* the Stop branch: stop_tx.send(true); pending_text.clear()
stop_effect(counter, pending) == [stop_tx |-> TRUE, counter |-> counter, pending |-> <<>>]

stop_reply_missing == <<>>

\* the frame the Stop branch sends
stop_reply == <<Stopped>>

RecvStop ==
    /\ Recv("stop")
    /\ stop_tx' = stop_effect(sentence_counter, pending_text).stop_tx
    /\ sentence_counter' = stop_effect(sentence_counter, pending_text).counter
    /\ pending_text' = stop_effect(sentence_counter, pending_text).pending
    /\ wire' = send(wire, stop_reply)
    /\ stop_arrival' = -1
    /\ UNCHANGED <<pc, nsent, service, gone, locals, reset_at, silent>>

\* an auth message after authentication is ignored
RecvAuth ==
    /\ Recv("auth")
    /\ UNCHANGED <<pc, nsent, wire, service, gone, session, locals, history>>

invalid_message_ignored == <<>>

\* the reply to a text frame that serde_json does not parse as a ClientMessage
invalid_message == <<Error(<<"Invalid message">>)>>

\* a text frame that is no ClientMessage
RecvInvalid ==
    /\ Recv("invalid")
    /\ wire' = send(wire, invalid_message)
    /\ UNCHANGED <<pc, nsent, service, gone, session, locals, history>>

\* a binary frame (and ping, pong) is ignored
RecvBinary ==
    /\ Recv("binary")
    /\ UNCHANGED <<pc, nsent, wire, service, gone, session, locals, history>>

\* a close frame
RecvClose ==
    /\ Recv("close")
    /\ pc' = "closed"
    /\ UNCHANGED <<nsent, wire, service, gone, session, locals, history>>

\* socket.recv() yields None or Some(Err(_)): the message loop breaks
RecvEnd ==
    /\ \E e \in StreamEnds : Recv(e)
    /\ pc' = "closed"
    /\ UNCHANGED <<nsent, wire, service, gone, session, locals, history>>

Next ==
    \/ ClientSend
    \/ AuthTimeout
    \/ WaitForAuth
    \/ RecvSynthesize
    \/ RecvSynthesizeAppend
    \/ RecvStop
    \/ RecvAuth
    \/ RecvInvalid
    \/ RecvBinary
    \/ RecvClose
    \/ RecvEnd
    \/ SentenceStep
    \/ ChunkStep

Spec == Init /\ [][Next]_vars

(***************************************************************************)
(* The same session with a client that may go away after authentication:   *)
(* from then on every send fails, and socket.recv() yields the frames that *)
(* had arrived before, then no frame.  The message loop awaits between the *)
(* read of a frame and the sends of its branch, so the peer may go away    *)
(* after the server read a frame and before it answers: the server cannot  *)
(* tell this from a peer that went just before the read of a frame that    *)
(* had arrived.                                                            *)
(***************************************************************************)
\* the peer goes away; of the frames it wrote and the server has not read,
\* those that had arrived can still be read, the others are lost
Disconnect ==
    /\ pc \in {"recv", "sentence", "chunk"}
    /\ ~peer_gone
    /\ gone' = (IF InRequest THEN sentence_counter ELSE -2)
    /\ \E arrived \in 0..Len(inbox) : inbox' = SubSeq(inbox, 1, arrived)
    /\ UNCHANGED <<pc, nsent, wire, service, session, locals, history>>

\* socket.recv() returns None or Some(Err(_)): the message loop breaks
RecvGone ==
    /\ pc = "recv"
    /\ peer_gone
    /\ inbox = <<>>
    /\ pc' = "closed"
    /\ UNCHANGED <<inbox, nsent, wire, service, gone, session, locals, history>>

NextDrop ==
    \/ Next
    \/ Disconnect
    \/ RecvGone

SpecDrop == Init /\ [][NextDrop]_vars

(***************************************************************************)
(* The functions of inference.rs, called on their own: the voices archive  *)
(* is loaded once, then the bank is read and phoneme strings are           *)
(* tokenized.  No connection is served.                                    *)
(***************************************************************************)
\* files of an archive: the shipped shape; a row short; a float too many;
\* two rows; less than a row; a version 2 header; no magic number; too short;
\* a header longer than the file
NpyFiles ==
    {StandardNpy,
     Npy(128 + 4 * (MAX_STYLE_TOKENS - 1) * EMBEDDING_DIM, TRUE, 1, 118),
     Npy(128 + 4 * (MAX_STYLE_TOKENS * EMBEDDING_DIM + 1), TRUE, 1, 118),
     Npy(128 + 4 * 2 * EMBEDDING_DIM, TRUE, 1, 118),
     Npy(128 + 4 * 100, TRUE, 1, 118),
     Npy(128 + 4 * MAX_STYLE_TOKENS * EMBEDDING_DIM, TRUE, 2, 116),
     Npy(128 + 4 * MAX_STYLE_TOKENS * EMBEDDING_DIM, FALSE, 1, 118),
     Npy(8, TRUE, 1, 118),
     Npy(20, TRUE, 1, 118)}

ArchiveVoices == {"af_heart", "bm_lewis"}
Entries == {Entry(v, f) : v \in ArchiveVoices, f \in NpyFiles}
Archives == UNION {[1..n -> Entries] : n \in 0..MaxEntries}

TokenLens == {0, 1, MAX_STYLE_TOKENS - 1, MAX_STYLE_TOKENS, MAX_STYLE_TOKENS + 1, 999}

\* phoneme characters: two of the vocabulary, the schwa, one unknown
PhonemeAlphabet == {"a", " ", "U+0259", "@"}
PhonemeStrings == UNION {[1..n -> PhonemeAlphabet] : n \in 0..MaxPhonemes}

Returned(fn, arg, value) == [fn |-> fn, arg |-> arg, value |-> value]

InitPure ==
    /\ Accepted
    /\ Started
    /\ model_loaded = FALSE
    /\ voices = Unloaded
    /\ session_lock = 0
    /\ calls = [t \in Threads |-> Idle]
    /\ ret = NoCall
    /\ NoBatch

\* VoiceEmbeddings::load(path), once
Load ==
    /\ voices.state = "unloaded"
    /\ \E archive \in Archives : voices' = load(archive)
    /\ UNCHANGED <<connection, jwks_cache, tasks, batch, model_loaded, session_lock, calls, ret>>

\* voices.get(voice, token_len)
Get ==
    /\ voices.state = "loaded"
    /\ \E v \in ArchiveVoices \cup {"nobody"}, token_len \in TokenLens :
         ret' = Returned("get", <<v, token_len>>, get(voices.embeddings, v, token_len))
    /\ UNCHANGED <<connection, jwks_cache, tasks, batch, model_loaded, voices, session_lock, calls>>

\* phonemes_to_tokens(&vocab, phonemes)
Tokenize ==
    /\ \E p \in PhonemeStrings :
         ret' = Returned("phonemes_to_tokens", p, phonemes_to_tokens(p))
    /\ UNCHANGED <<connection, jwks_cache, tasks, batch, model_loaded, voices, session_lock, calls>>

\* the texts given to split_sentences: every string of up to MaxText
\* characters over a letter, the space and three sentence enders, and the
\* text of test_split_sentences
TextAlphabet == {"a", " ", ".", "?", "U+3002"}

TestText ==
    <<"H", "e", "l", "l", "o", " ", "w", "o", "r", "l", "d", ".", " ",
      "T", "h", "i", "s", " ", "i", "s", " ", "a", " ", "t", "e", "s",
      "t", "!", " ", "H", "o", "w", " ", "a", "r", "e", " ", "y", "o",
      "u", "?">>

Texts == UNION {[1..n -> TextAlphabet] : n \in 0..MaxText} \cup {TestText}

NextPure ==
    \/ Load
    \/ Get
    \/ Tokenize

SpecPure == InitPure /\ [][NextPure]_vars

\* split_sentences called alone, on a text given from the start
Given(fn, arg) == [fn |-> "given", arg |-> arg, value |-> fn]

InitSplit ==
    /\ Accepted
    /\ Started
    /\ model_loaded = FALSE
    /\ voices = Unloaded
    /\ session_lock = 0
    /\ calls = [t \in Threads |-> Idle]
    /\ ret \in {Given("split_sentences", text) : text \in Texts}
    /\ NoBatch

Split ==
    /\ ret.fn = "given"
    /\ ret' = Returned("split_sentences", ret.arg, split_sentences(ret.arg))
    /\ UNCHANGED <<connection, jwks_cache, tasks, batch, model_loaded, voices, session_lock, calls>>

SpecSplit == InitSplit /\ [][Split]_vars

(***************************************************************************)
(* KokoroModel::synthesize called from several blocking threads (one per   *)
(* live connection that is synthesizing a sentence) on the one model of    *)
(* the process.  A call computes the tokens and makes its checks, locks    *)
(* the session, runs it, and returns; the guard of the lock is dropped     *)
(* when the call returns.  session_lock is the thread that holds the       *)
(* mutex, 0 when it is free, Poisoned when it is free and a thread         *)
(* panicked while it held the guard.                                       *)
(***************************************************************************)
\* a string of exactly MAX_STYLE_TOKENS tokens
FullPhonemes == [i \in 1..(MAX_STYLE_TOKENS - 2) |-> "a"]

EnginePhonemes == {<<"@">>, <<"a", "b">>, FullPhonemes, LongPhonemes}
EngineVoices == {"af_heart", "nobody"}

InitEngine ==
    /\ Accepted
    /\ Started
    /\ model_loaded = TRUE
    /\ voices = StandardVoices
    /\ session_lock = 0
    /\ calls = [t \in Threads |-> Idle]
    /\ ret = NoCall
    /\ NoBatch

\* the call up to the lock: tokens, checks, style row, tensors
SynCall(t) ==
    /\ calls[t].pc = "idle"
    /\ \E p \in EnginePhonemes, v \in EngineVoices :
         LET seq_len == Len(phonemes_to_tokens(p))
             c == synthesize_checks(seq_len, get(voices.embeddings, v, seq_len) # None)
         IN  calls' = [calls EXCEPT ![t] =
                          IF c.done THEN Call("returned", seq_len, v, c.result, FALSE)
                                    ELSE Call("lock", seq_len, v, Ok(0), FALSE)]
    /\ UNCHANGED <<connection, jwks_cache, tasks, batch, model_loaded, voices, session_lock, ret>>

\* the state of a std::sync::Mutex that is free after a thread panicked
\* while it held the guard
Poisoned == -1

\* self.session.lock(): the call blocks while another call holds the guard;
\* it gets the guard of a free mutex, and Err of a poisoned one, whose guard
\* is dropped with the error
SynLock(t) ==
    /\ calls[t].pc = "lock"
    /\ session_lock \in {0, Poisoned}
    /\ IF session_lock = Poisoned
       THEN /\ calls' = [calls EXCEPT ![t] =
                   Call("returned", @.seq_len, @.voice,
                        Err("Failed to lock session"), FALSE)]
            /\ UNCHANGED session_lock
       ELSE /\ session_lock' = t
            /\ calls' = [calls EXCEPT ![t].pc = "run"]
    /\ UNCHANGED <<connection, jwks_cache, tasks, batch, model_loaded, voices, ret>>

release_on_success(t, r) == IF r.ok THEN 0 ELSE t

\* the guard is dropped when synthesize returns, with Ok or with Err
release(t, r) == 0

\* session.run(...), the audio or the error, and the return
SynRun(t) ==
    /\ calls[t].pc = "run"
    /\ \E r \in session_run :
         /\ calls' = [calls EXCEPT ![t] = Call("returned", @.seq_len, @.voice, r, TRUE)]
         /\ session_lock' = release(t, r)
    /\ UNCHANGED <<connection, jwks_cache, tasks, batch, model_loaded, voices, ret>>

\* the caller has the result; the thread is free for the next sentence
SynReturn(t) ==
    /\ calls[t].pc = "returned"
    /\ calls' = [calls EXCEPT ![t] = Idle]
    /\ UNCHANGED <<connection, jwks_cache, tasks, batch, model_loaded, voices, session_lock, ret>>

NextEngine ==
    \E t \in Threads :
        \/ SynCall(t)
        \/ SynLock(t)
        \/ SynRun(t)
        \/ SynReturn(t)

\* the calls of a process in which no thread panics
SpecEngine == InitEngine /\ [][NextEngine]_vars

\* the thread panics while it holds the guard (inside the ONNX runtime or
\* while the audio is extracted): the guard is dropped as the thread unwinds,
\* which poisons the mutex; the caller is told that the task failed
SynPanic(t) ==
    /\ calls[t].pc = "run"
    /\ calls' = [calls EXCEPT ![t] =
           Call("returned", @.seq_len, @.voice, Err("Synthesis task failed"), TRUE)]
    /\ session_lock' = Poisoned
    /\ UNCHANGED <<connection, jwks_cache, tasks, batch, model_loaded, voices, ret>>

NextPanic ==
    \/ NextEngine
    \/ \E t \in Threads : SynPanic(t)

\* the same calls in a process in which a run may panic.  A thread that
\* runs the session comes to the end of the run, and a thread that waits
\* for a mutex that stays free gets it; std::sync::Mutex promises no order
\* among the waiters, so nothing is assumed of a thread that waits while
\* the mutex is taken again and again
SpecPanic ==
    /\ InitEngine
    /\ [][NextPanic]_vars
    /\ \A t \in Threads : WF_vars(SynRun(t) \/ SynPanic(t)) /\ WF_vars(SynLock(t))

(***************************************************************************)
(* The batch job engine (handlers.rs, cleanup.rs): the jobs table, the     *)
(* storage directory, the background task of each job and the sweeper.     *)
(* The database answers every statement; the external tools terminate.     *)
(*                                                                         *)
(* A path is a sequence of characters (the extension ".mp3" is written as  *)
(* one); NULL is the empty tuple and a column value v is <<v>>.            *)
(***************************************************************************)
JobIds == 1..MaxJobs

\* STORAGE_PATH, the configured storage root
storage_path == <<"/", "s">>

\* str::starts_with: a prefix of the string, character by character
starts_with(s, prefix) ==
    Len(prefix) <= Len(s) /\ SubSeq(s, 1, Len(prefix)) = prefix

\* Path::join with a relative name
path_join(base, name) ==
    IF ends_with(base, "/") THEN base \o name ELSE base \o <<"/">> \o name

\* format!("{}.mp3", job_id)
mp3_filename(id) == <<ToString(id), ".mp3">>

\* output_dir.join(&mp3_filename)
mp3_path(id) == path_join(storage_path, mp3_filename(id))

Null == <<>>
Value(v) == <<v>>

\* a row of the table jobs
Row(status, error_message, file_path, created_at, last_accessed_at) ==
    [status |-> status, error_message |-> error_message, file_path |-> file_path,
     created_at |-> created_at, last_accessed_at |-> last_accessed_at]

\* INSERT INTO jobs (id, status) VALUES ($1, 'processing'); the other columns
\* take their defaults: NULL, and NOW() for created_at and last_accessed_at
insert_job(table, id, t) == (id :> Row("processing", Null, Null, t, t)) @@ table

update_error_with_path(table, id, message) ==
    IF id \in DOMAIN table
    THEN [table EXCEPT ![id].status = "error", ![id].error_message = Value(message),
                       ![id].file_path = Value(message)]
    ELSE table

\* UPDATE jobs SET status = 'error', error_message = $1 WHERE id = $2
update_error(table, id, message) ==
    IF id \in DOMAIN table
    THEN [table EXCEPT ![id].status = "error", ![id].error_message = Value(message)]
    ELSE table

\* UPDATE jobs SET status = 'completed', file_path = $1 WHERE id = $2
update_completed(table, id, path) ==
    IF id \in DOMAIN table
    THEN [table EXCEPT ![id].status = "completed", ![id].file_path = Value(path)]
    ELSE table

\* UPDATE jobs SET last_accessed_at = NOW() WHERE id = $1
touch(table, id, t) ==
    IF id \in DOMAIN table
    THEN [table EXCEPT ![id].last_accessed_at = t]
    ELSE table

\* the rows that match WHERE last_accessed_at < NOW() - INTERVAL '7 days'
expired_or_at_limit(table, t) ==
    {id \in DOMAIN table : table[id].last_accessed_at <= t - TTL_DAYS}

expired(table, t) ==
    {id \in DOMAIN table : table[id].last_accessed_at < t - TTL_DAYS}

\* the table after DELETE FROM jobs WHERE ...
delete_none(table, ids) == table

delete(table, ids) == [id \in DOMAIN table \ ids |-> table[id]]

\* ... RETURNING file_path: the paths of the deleted rows that are not NULL
returning_file_path(rows) ==
    {rows[id].file_path[1] : id \in {d \in DOMAIN rows : rows[d].file_path # Null}}

\* the files run_cleanup calls remove_file for
unlink_any_path(rows) == returning_file_path(rows)

unlink(rows) == {p \in returning_file_path(rows) : starts_with(p, storage_path)}

\* an HTTP response
Response(status, body, detail) ==
    [status |-> status, body |-> body, detail |-> detail]

\* the speed strings of the requests and str::parse::<f32>: a decimal number,
\* or "inf", "infinity", "nan" in any case with an optional sign
SpeedStrings == {"1.0", "not_a_number", "inf", "NaN"}

ParseOk(kind) == [ok |-> TRUE, kind |-> kind]
ParseErr == [ok |-> FALSE, kind |-> "error"]

parse_f32(s) ==
    IF s = "1.0" THEN ParseOk("finite")
    ELSE IF s = "inf" THEN ParseOk("infinite")
    ELSE IF s = "NaN" THEN ParseOk("nan")
    ELSE ParseErr

\* a POST /generate request: where the multipart body is broken ("next_field":
\* between fields, "text_file": inside the text_file field, "text": inside the
\* speed or the voice field), whether it has a text_file field, its speed
\* field if it has one
GenerateRequest(broken, text_file, speed) ==
    [broken |-> broken, text_file |-> text_file, speed |-> speed]

GenerateRequests ==
    {GenerateRequest(b, TRUE, Null) : b \in {"next_field", "text_file", "text"}}
    \cup {GenerateRequest("none", tf, sp) :
            tf \in BOOLEAN, sp \in {Null} \cup {Value(s) : s \in SpeedStrings}}

\* the speed of a request: "1.0" unless the body has a speed field
speed_of(req) == IF req.speed = Null THEN "1.0" ELSE req.speed[1]

\* generate_speech up to the insert: the rejection, or the answer {id}
generate_response(req, id) ==
    IF req.broken = "next_field" THEN Response(400, "multipart error", Null)
    ELSE IF req.broken = "text_file" THEN Response(500, "multipart error", Null)
    ELSE IF req.broken = "text" THEN Response(400, "multipart error", Null)
    ELSE IF ~req.text_file THEN Response(400, "Missing text_file field", Null)
    ELSE IF ~parse_f32(speed_of(req)).ok
    THEN Response(400, "Invalid speed parameter", Null)
    ELSE Response(200, "id", Value(id))

\* Uuid::new_v4(): an id no job had before
new_v4 == Cardinality(DOMAIN workers) + 1

\* the locals of generate_speech while it awaits the INSERT
Inserting(req, job_id) == [req |-> req, job_id |-> job_id]

\* POST /generate up to the INSERT: a rejected request is answered; an
\* accepted one has its row inserted and awaits the database, with no
\* background task yet
Generate ==
    /\ tasks.generate_speech = Null
    /\ \E req \in GenerateRequests :
         LET job_id == new_v4
             response == generate_response(req, job_id)
         IN  IF response.status = 200
             THEN /\ job_id \in JobIds
                  /\ jobs' = insert_job(jobs, job_id, now)
                  /\ workers' = (job_id :> "unspawned") @@ workers
                  /\ tasks' = [tasks EXCEPT !.generate_speech =
                                  Value(Inserting(req, job_id))]
                  /\ UNCHANGED ret
             ELSE /\ ret' = Returned("generate_speech", req, response)
                  /\ UNCHANGED <<jobs, workers, tasks>>
    /\ UNCHANGED <<connection, jwks_cache, engine, files, now>>

\* generate_speech after the INSERT: spawn_blocking, and the answer {id}
GenerateSpawn ==
    /\ tasks.generate_speech # Null
    /\ LET task == tasks.generate_speech[1]
       IN  /\ workers' = [workers EXCEPT ![task.job_id] = "kokoro-tts"]
           /\ ret' = Returned("generate_speech", task.req,
                              generate_response(task.req, task.job_id))
    /\ tasks' = [tasks EXCEPT !.generate_speech = Null]
    /\ UNCHANGED <<connection, jwks_cache, engine, jobs, files, now>>

\* the client goes away while generate_speech awaits the INSERT: the future
\* of the handler is dropped, the row stays and no background task is spawned
GenerateDropped ==
    /\ tasks.generate_speech # Null
    /\ tasks' = [tasks EXCEPT !.generate_speech = Null]
    /\ UNCHANGED <<connection, jwks_cache, engine, ret, jobs, files, workers, now>>

\* how process_tts ends before ffmpeg runs: the temporary text file, the WAV
\* of the test mode, the run of kokoro-tts and the WAV file it leaves
TtsOutcomes ==
    {"ok", "Failed to create temp text file", "Failed to write text file",
     "Failed to flush text file", "Invalid path", "Failed to write test WAV file",
     "Failed to spawn kokoro-tts", "Failed to wait on kokoro-tts",
     "kokoro-tts failed", "kokoro-tts did not produce output file"}

\* how Command::output of ffmpeg ends: it exits with success, it cannot be
\* executed, it exits with a failure
FfmpegOutcomes == {"ok", "Failed to execute ffmpeg", "ffmpeg failed"}

\* the update the background task makes when process_tts fails
worker_error_silent(table, id, e) == table

worker_error(table, id, e) == update_error(table, id, e)

\* process_tts up to the end of kokoro-tts; the result of a failure waits
\* for the UPDATE of the background task
ProcessTts(id) ==
    /\ id \in DOMAIN workers
    /\ workers[id] = "kokoro-tts"
    /\ \E outcome \in TtsOutcomes :
         IF outcome = "ok"
         THEN /\ workers' = [workers EXCEPT ![id] = "ffmpeg"]
              /\ UNCHANGED tasks
         ELSE /\ workers' = [workers EXCEPT ![id] = "update"]
              /\ tasks' = [tasks EXCEPT !.process_tts = (id :> outcome) @@ @]
    /\ UNCHANGED <<connection, jwks_cache, engine, ret, jobs, files, now>>

\* the path process_tts stores in the completed row
stored_path_bare(id) == mp3_filename(id)

stored_path(id) == mp3_path(id)

\* the run of ffmpeg, which writes the MP3 into the storage: whole when it
\* succeeds, and when it fails either not at all or in part (the file is not
\* removed after a failure)
Ffmpeg(id) ==
    /\ id \in DOMAIN workers
    /\ workers[id] = "ffmpeg"
    /\ workers' = [workers EXCEPT ![id] = "update"]
    /\ \E outcome \in FfmpegOutcomes :
         /\ tasks' = [tasks EXCEPT !.process_tts = (id :> outcome) @@ @]
         /\ \/ /\ outcome # "Failed to execute ffmpeg"
               /\ files' = files \cup {mp3_path(id)}
            \/ /\ outcome # "ok"
               /\ UNCHANGED files
    /\ UNCHANGED <<connection, jwks_cache, engine, ret, jobs, now>>

\* the UPDATE that ends the background task: to completed as the last
\* statement of process_tts, to error when process_tts returned Err
WorkerUpdate(id) ==
    /\ id \in DOMAIN workers
    /\ workers[id] = "update"
    /\ workers' = [workers EXCEPT ![id] = "done"]
    /\ jobs' = IF tasks.process_tts[id] = "ok"
               THEN update_completed(jobs, id, stored_path(id))
               ELSE worker_error(jobs, id, tasks.process_tts[id])
    /\ tasks' = [tasks EXCEPT !.process_tts =
                    [j \in DOMAIN @ \ {id} |-> @[j]]]
    /\ UNCHANGED <<connection, jwks_cache, engine, ret, files, now>>

\* a GET /status/{id} request: whether the id parses as a UUID, and the job
StatusRequest(uuid, id) == [uuid |-> uuid, id |-> id]

StatusRequests ==
    {StatusRequest(FALSE, 0)} \cup {StatusRequest(TRUE, id) : id \in JobIds}

\* tokio::fs::File::open(&path)
open_any(fs, path) == TRUE

open(fs, path) == path \in fs

\* the answer of check_status to the row its SELECT returned
check_status_response(table, fs, req) ==
    IF ~req.uuid THEN Response(400, "Invalid UUID", Null)
    ELSE IF req.id \notin DOMAIN table THEN Response(404, "Job not found", Null)
    ELSE LET row == table[req.id]
         IN  IF row.status = "processing"
             THEN Response(200, "processing", Null)
             ELSE IF row.status = "error"
             THEN Response(200, "error", row.error_message)
             ELSE IF row.status = "completed"
             THEN IF open(fs, row.file_path[1])
                  THEN Response(200, "audio/mpeg", row.file_path)
                  ELSE Response(500, "File missing from storage", Null)
             ELSE Response(500, "Unknown status", Null)

\* a status request with what it found when it began: whether the row was
\* there and completed, and whether its file was there
Began(req, completed, file) == [req |-> req, completed |-> completed, file |-> file]

\* the locals of check_status after the SELECT: the request, the file_path of
\* the row, whether the file is open
Selected(began, path, opened) == [began |-> began, path |-> path, opened |-> opened]

\* check_status up to the SELECT and the match on status: every row but a
\* completed one is answered at once
StatusSelect ==
    /\ tasks.check_status = Null
    /\ \E req \in StatusRequests :
         LET found == req.uuid /\ req.id \in DOMAIN jobs
             completed == found /\ jobs[req.id].status = "completed"
         IN  IF completed
             THEN LET path == jobs[req.id].file_path[1]
                  IN  /\ tasks' = [tasks EXCEPT !.check_status =
                            Value(Selected(Began(req, TRUE, path \in files), path, FALSE))]
                      /\ UNCHANGED ret
             ELSE /\ ret' = Returned("check_status", Began(req, FALSE, FALSE),
                                     check_status_response(jobs, files, req))
                  /\ UNCHANGED tasks
    /\ UNCHANGED <<connection, jwks_cache, engine, jobs, files, workers, now>>

\* tokio::fs::File::open(&path), and the answer 500 when it fails
StatusOpen ==
    /\ tasks.check_status # Null
    /\ ~tasks.check_status[1].opened
    /\ LET task == tasks.check_status[1]
       IN  IF open(files, task.path)
           THEN /\ tasks' = [tasks EXCEPT !.check_status =
                                Value(Selected(task.began, task.path, TRUE))]
                /\ UNCHANGED ret
           ELSE /\ tasks' = [tasks EXCEPT !.check_status = Null]
                /\ ret' = Returned("check_status", task.began,
                                   Response(500, "File missing from storage", Null))
    /\ UNCHANGED <<connection, jwks_cache, engine, jobs, files, workers, now>>

\* the UPDATE of last_accessed_at and the answer with the open file as body
StatusTouch ==
    /\ tasks.check_status # Null
    /\ tasks.check_status[1].opened
    /\ LET task == tasks.check_status[1]
       IN  /\ jobs' = touch(jobs, task.began.req.id, now)
           /\ ret' = Returned("check_status", task.began,
                              Response(200, "audio/mpeg", Value(task.path)))
    /\ tasks' = [tasks EXCEPT !.check_status = Null]
    /\ UNCHANGED <<connection, jwks_cache, engine, files, workers, now>>

\* what run_cleanup did: the rows it deleted, the files it removed, and, when
\* it runs right after another run, the rows that run deleted
Swept(deleted, removed, previous) ==
    [deleted |-> deleted, removed |-> removed, previous |-> previous]

\* the locals of run_cleanup inside its loop: the rows the DELETE returned,
\* the paths remove_file is still to be called for, the files removed so far
Sweeping(deleted, pending, removed, previous) ==
    [deleted |-> deleted, pending |-> pending, removed |-> removed,
     previous |-> previous]

\* run_cleanup: the DELETE ... RETURNING file_path; the run is over when no
\* returned path is to be removed
SweepDelete ==
    /\ tasks.run_cleanup = Null
    /\ LET deleted == [id \in expired(jobs, now) |-> jobs[id]]
           previous == IF ret.fn = "run_cleanup" /\ ret.arg = now
                       THEN Value(DOMAIN ret.value.deleted)
                       ELSE Null
       IN  /\ jobs' = delete(jobs, DOMAIN deleted)
           /\ IF unlink(deleted) = {}
              THEN /\ ret' = Returned("run_cleanup", now, Swept(deleted, {}, previous))
                   /\ UNCHANGED tasks
              ELSE /\ tasks' = [tasks EXCEPT !.run_cleanup =
                                  Value(Sweeping(deleted, unlink(deleted), {}, previous))]
                   /\ UNCHANGED ret
    /\ UNCHANGED <<connection, jwks_cache, engine, files, workers, now>>

\* tokio::fs::remove_file: the storage without the file, or, when the call
\* fails (no such file, not permitted, a directory), the storage as it was
remove_file(fs, path) == {fs \ {path}, fs}

\* run_cleanup: one turn of the loop, remove_file of one returned path,
\* whose failure is logged and ignored; the run is over after the last
SweepUnlink ==
    /\ tasks.run_cleanup # Null
    /\ LET task == tasks.run_cleanup[1]
       IN  \E path \in task.pending : \E after \in remove_file(files, path) :
             LET removed == task.removed \cup (files \ after)
             IN  /\ files' = after
                 /\ IF task.pending = {path}
                    THEN /\ tasks' = [tasks EXCEPT !.run_cleanup = Null]
                         /\ ret' = Returned("run_cleanup", now,
                                        Swept(task.deleted, removed, task.previous))
                    ELSE /\ tasks' = [tasks EXCEPT !.run_cleanup =
                                Value(Sweeping(task.deleted, task.pending \ {path},
                                               removed, task.previous))]
                         /\ UNCHANGED ret
    /\ UNCHANGED <<connection, jwks_cache, engine, jobs, workers, now>>

\* time passes.  The clock is looked at on the days 0, 1, 7, 8, ...: a row is
\* then younger than the limit, at the limit or older
next_day(t) == IF t % TTL_DAYS = 0 THEN t + 1 ELSE t + TTL_DAYS - 1

Tick ==
    /\ next_day(now) <= MaxNow
    /\ now' = next_day(now)
    /\ UNCHANGED <<connection, jwks_cache, tasks, engine, ret, jobs, files, workers>>

\* a day passes between two requests and sweeps: neither lasts a day
TickBetween ==
    /\ tasks.generate_speech = Null
    /\ tasks.check_status = Null
    /\ tasks.run_cleanup = Null
    /\ Tick

\* the storage loses a file
StorageLoss ==
    /\ \E f \in files : files' = files \ {f}
    /\ UNCHANGED <<connection, jwks_cache, tasks, engine, ret, jobs, workers, now>>

NextBatch ==
    \/ Generate
    \/ GenerateSpawn
    \/ GenerateDropped
    \/ \E id \in JobIds : ProcessTts(id)
    \/ \E id \in JobIds : Ffmpeg(id)
    \/ \E id \in JobIds : WorkerUpdate(id)
    \/ StatusSelect
    \/ StatusOpen
    \/ StatusTouch
    \/ SweepDelete
    \/ SweepUnlink
    \/ TickBetween
    \/ StorageLoss

\* a fresh deployment: an empty table, an empty storage
InitBatch ==
    /\ Accepted
    /\ Started
    /\ model_loaded = FALSE
    /\ voices = Unloaded
    /\ session_lock = 0
    /\ calls = [t \in Threads |-> Idle]
    /\ ret = NoCall
    /\ NoBatch

\* every background task runs on its own thread of the blocking pool
WorkersRun ==
    \A id \in JobIds :
        WF_vars(ProcessTts(id)) /\ WF_vars(Ffmpeg(id)) /\ WF_vars(WorkerUpdate(id))

SpecBatch ==
    /\ InitBatch
    /\ [][NextBatch]_vars
    /\ WorkersRun

\* the background tasks and the sweeper alone: what writes or deletes a status
NextWorkers ==
    \/ Generate
    \/ GenerateSpawn
    \/ GenerateDropped
    \/ \E id \in JobIds : ProcessTts(id)
    \/ \E id \in JobIds : Ffmpeg(id)
    \/ \E id \in JobIds : WorkerUpdate(id)
    \/ SweepDelete
    \/ SweepUnlink
    \/ TickBetween

SpecWorkers ==
    /\ InitBatch
    /\ [][NextWorkers]_vars
    /\ WorkersRun

(***************************************************************************)
(* The sweeper over a table that earlier deployments wrote: the table      *)
(* outlives the service (CREATE TABLE IF NOT EXISTS), and STORAGE_PATH may *)
(* have been another directory then.                                       *)
(***************************************************************************)
\* paths under the storage root, beside it, and elsewhere
StoredPaths ==
    {mp3_path(1), <<"/", "s", "2", "/", "1", ".mp3">>, <<"/", "e", "/", "1", ".mp3">>}

StoredRows ==
    {Row("processing", Null, Null, 0, 0),
     Row("error", Value("ffmpeg failed"), Null, 0, 0)}
    \cup {Row("completed", Null, Value(p), 0, t) : p \in StoredPaths, t \in {0, 1}}

StoredTables ==
    UNION {[ids -> StoredRows] : ids \in SUBSET JobIds}

InitSweep ==
    /\ Accepted
    /\ Started
    /\ model_loaded = FALSE
    /\ voices = Unloaded
    /\ session_lock = 0
    /\ calls = [t \in Threads |-> Idle]
    /\ ret = NoCall
    /\ jobs \in StoredTables
    /\ files \in SUBSET StoredPaths
    /\ workers = NoRows
    /\ now = 1

NextSweep ==
    \/ StatusSelect
    \/ StatusOpen
    \/ StatusTouch
    \/ SweepDelete
    \/ SweepUnlink
    \/ TickBetween

SpecSweep == InitSweep /\ [][NextSweep]_vars

(***************************************************************************)
(* Properties of the live session.                                         *)
(***************************************************************************)
Tagged(f) == f.type \in {"word_timing", "audio", "sentence_done"}

\* the sentence indices of the word_timing frames of a frame sequence, in order
RECURSIVE TimingIndices(_)
TimingIndices(frames) ==
    IF frames = <<>> THEN <<>>
    ELSE IF Head(frames).type = "word_timing"
         THEN <<Head(frames).sentence_index>> \o TimingIndices(Tail(frames))
         ELSE TimingIndices(Tail(frames))

HeadFrame == Head(inbox)
\* the frames a step put on the wire
Added == SubSeq(wire', Len(wire) + 1, Len(wire'))
ServerReads(type) == pc = "recv" /\ inbox # <<>> /\ HeadFrame.type = type /\ inbox' = Tail(inbox)

\* C1: for every sentence index that produces output the server sends one
\* word_timing, then the audio chunks of that index, then one sentence_done,
\* with nothing in between; and done is sent only when the last sentence that
\* produced output has had its sentence_done.
C1_FrameOrder ==
    \A p \in 1..Len(wire) :
        LET f == wire[p]
        IN  /\ f.type = "word_timing" =>
                /\ p > 1 /\ wire[p - 1].type \notin {"word_timing", "audio"}
                /\ p < Len(wire) => /\ wire[p + 1].type = "audio"
                                    /\ wire[p + 1].sentence_index = f.sentence_index
            /\ f.type = "audio" =>
                /\ p > 1 /\ wire[p - 1].type \in {"word_timing", "audio"}
                /\ wire[p - 1].sentence_index = f.sentence_index
                /\ p < Len(wire) => /\ wire[p + 1].type \in {"audio", "sentence_done"}
                                    /\ wire[p + 1].sentence_index = f.sentence_index
            /\ f.type = "sentence_done" =>
                /\ p > 1 /\ wire[p - 1].type = "audio"
                /\ wire[p - 1].sentence_index = f.sentence_index
            /\ f.type = "done" =>
                p > 1 /\ wire[p - 1].type \notin {"word_timing", "audio"}

\* a request of two sentences was streamed whole: two chunks for sentence 0,
\* sentence_done{1}, then done
C1_Witness ==
    \E p \in 4..Len(wire) :
        /\ wire[p] = Done
        /\ wire[p - 1] = SentenceDone(1)
        /\ \E q \in 2..(p - 1) : /\ wire[q] = AudioChunk(0, 1)
                                 /\ wire[q - 1] = AudioChunk(0, chunk_samples)
                                 /\ wire[q + 1] = SentenceDone(0)

\* C2 as stated: over the whole session a frame with a smaller index is never
\* sent after a frame with a larger one.
C2_SessionFifo ==
    \A p, q \in 1..Len(wire) :
        (p < q /\ Tagged(wire[p]) /\ Tagged(wire[q]))
            => wire[p].sentence_index <= wire[q].sentence_index

\* C2 amended: among the frames sent since the last full synthesize, a frame
\* with a smaller index is never sent after a frame with a larger one.
C2_FifoSinceReset ==
    \A p, q \in (reset_at + 1)..Len(wire) :
        (p < q /\ Tagged(wire[p]) /\ Tagged(wire[q]))
            => wire[p].sentence_index <= wire[q].sentence_index

\* a second request streams sentence 0 then 1 after an earlier request reached 1
C2_Witness ==
    /\ \E p \in 1..reset_at : wire[p] = SentenceDone(1)
    /\ \E p, q \in (reset_at + 1)..Len(wire) :
           p < q /\ wire[p] = SentenceDone(0) /\ wire[q] = WordTiming(1)

\* C3 as stated: with no full synthesize in the session, the k-th sentence
\* that produces output carries index k - 1.
C3_Contiguous ==
    reset_at = 0 =>
        LET e == TimingIndices(wire)
        IN  \A k \in 1..Len(e) : e[k] = k - 1

\* C3 amended: with no full synthesize in the session, the indices of the
\* sentences that produce output are strictly increasing, and together with the
\* indices taken by sentences that sent nothing (skipped as empty, failed, or
\* cut by the stop latch) they are exactly 0 .. sentence_counter - 1.
C3_IncreasingWithGaps ==
    reset_at = 0 =>
        LET e == TimingIndices(wire)
            emitted == {e[k] : k \in 1..Len(e)}
        IN  /\ \A j, k \in 1..Len(e) : j < k => e[j] < e[k]
            /\ emitted \cup silent = 0..(sentence_counter - 1)
            /\ emitted \cap silent = {}

\* appends only: sentence 0 sent nothing, sentence 1 was streamed
C3_Witness ==
    /\ reset_at = 0
    /\ 0 \in silent
    /\ \E p \in 1..Len(wire) : wire[p] = SentenceDone(1)
    /\ \A i \in 1..Len(wire) : wire[i].type # "stopped"

\* C4: a full synthesize, whatever the counter, the buffer and the latch are,
\* sets the counter to 0 and empties the buffer before its first sentence: the
\* loop works on the sentences of the message text alone, its k-th sentence
\* takes index k - 1, and the buffer stays empty during the request.
C4_Reset ==
    /\ [](branch = "synthesize" =>
            /\ InRequest
            /\ pending_text = <<>>
            /\ sentence_counter = pos - 1
            /\ pc = "chunk" => sentence_idx = pos - 2)
    /\ [][ServerReads("synthesize") =>
            /\ sentence_counter' = 0
            /\ pending_text' = <<>>
            /\ model_loaded => /\ pc' = "sentence" /\ pos' = 1
                               /\ sentences' = split_sentences(HeadFrame.text)]_vars

\* a full synthesize streams its first sentence as index 0 after an append
\* request had already sent sentence_done{1}
C4_Witness ==
    /\ branch = "synthesize"
    /\ pc = "chunk"
    /\ sentence_idx = 0
    /\ \E p \in 1..reset_at : wire[p] = SentenceDone(1)

\* the two results the append rule allows for the buffer
AppendLeaves(pending, text) ==
    LET buf == pending \o text
        s == split_sentences(buf)
    IN  {buf, <<>>} \cup (IF Len(s) >= 2 THEN {s[Len(s)]} ELSE {})

\* C5 as stated: the buffer loses text only by a full synthesize or by the
\* append rule.
C5_OnlySynthesizeClears ==
    [][pending_text' # pending_text =>
          \/ ServerReads("synthesize")
          \/ /\ ServerReads("synthesize_append")
             /\ pending_text' \in AppendLeaves(pending_text, HeadFrame.text)]_vars

\* C5 amended: the counter is set back only by a full synthesize; the buffer is
\* emptied by a full synthesize and by stop, changed by synthesize_append
\* through the append rule, and changed by nothing else.
C5_ResetAndClear ==
    [][/\ sentence_counter' < sentence_counter => ServerReads("synthesize")
       /\ pending_text' # pending_text =>
            \/ ServerReads("synthesize") /\ pending_text' = <<>>
            \/ ServerReads("stop") /\ pending_text' = <<>>
            \/ /\ ServerReads("synthesize_append")
               /\ pending_text' \in AppendLeaves(pending_text, HeadFrame.text)]_vars

\* a stop was handled when sentences had been counted: the counter is kept
C5_Witness ==
    /\ wire # <<>>
    /\ wire[Len(wire)] = Stopped
    /\ sentence_counter = 2
    /\ pending_text = <<>>

StopWaiting == \E i \in 1..Len(inbox) : inbox[i].type = "stop"

\* C6: when the client has written a stop during a request, the loop aborts at
\* its next sentence or chunk check: the server sends no further word_timing
\* and no further audio chunk of that request.
C6_StopAborts ==
    [][(InRequest /\ stop_arrival >= 0 /\ Len(wire') > Len(wire))
          => wire'[Len(wire')].type \notin {"word_timing", "audio"}]_vars

\* the message loop takes a stop message from the socket
ObservesStop ==
    /\ pc # "auth"
    /\ inbox # <<>>
    /\ HeadFrame.type = "stop"
    /\ inbox' = Tail(inbox)

\* C7: when the server observes a stop, stopped is the next frame it sends,
\* with at most one audio chunk and nothing else before it; no request is
\* running then and none goes on, so no sentence of an interrupted request
\* is left to be sent; and once the latch is set no word_timing, no audio
\* chunk and no sentence_done is sent.
C7_StopLatency ==
    /\ [][ObservesStop =>
            /\ Added # <<>>
            /\ Added[Len(Added)] = Stopped
            /\ Len(Added) <= 2
            /\ \A p \in 1..(Len(Added) - 1) : Added[p].type = "audio"
            /\ ~InRequest
            /\ pc' = "recv"
            /\ stop_tx']_vars
    /\ [][stop_tx => \A p \in 1..Len(Added) : ~Tagged(Added[p])]_vars

\* a request streamed a sentence and ended; the stop the client wrote
\* meanwhile was then observed and answered with stopped
C7_Witness ==
    /\ pc = "recv"
    /\ stop_tx
    /\ Len(wire) >= 4
    /\ wire[Len(wire)] = Stopped
    /\ wire[Len(wire) - 1] = Done
    /\ \E p \in 1..Len(wire) : wire[p].type = "audio"
    /\ stop_arrival = -1

\* C8: after stopped was sent, a request that enters the sentence loop (and is
\* not itself interrupted by a new stop) ends with done, or with error.
C8_SynthesizeAfterStop ==
    [][(/\ InRequest
        /\ pc' = "recv"
        /\ \E p \in 1..Len(wire) : wire[p] = Stopped
        /\ ~StopWaiting)
          => /\ Len(wire') = Len(wire) + 1
             /\ wire'[Len(wire')].type \in {"done", "error"}]_vars

FlushChars == {".", "!", "?", ":", ";"}

\* C9: synthesize_append appends the text to the buffer and splits the buffer;
\* if the buffer without its trailing whitespace ends with . ! ? : or ; all
\* sentences go to synthesis and the buffer becomes empty; otherwise, with two
\* or more sentences, all but the last go to synthesis and the last becomes the
\* buffer; with one sentence (or none) nothing is synthesized and the whole
\* buffer is kept.  "Hello " then "world. Foo" hands over exactly
\* "Hello world.", which takes index 0, and leaves "Foo".
C9_AppendRule ==
    /\ [][ServerReads("synthesize_append") =>
            LET buf == pending_text \o HeadFrame.text
                s == split_sentences(buf)
                t == trim_end(buf)
                flush == t # <<>> /\ t[Len(t)] \in FlushChars
                Handed(x) == IF model_loaded
                             THEN pc' = "sentence" /\ sentences' = x /\ pos' = 1
                             ELSE pc' = "recv" /\ wire' # wire
            IN  /\ (flush /\ Len(s) >= 1) => (pending_text' = <<>> /\ Handed(s))
                /\ (~flush /\ Len(s) >= 2) =>
                       /\ pending_text' = s[Len(s)]
                       /\ Handed(SubSeq(s, 1, Len(s) - 1))
                /\ (~flush /\ Len(s) <= 1) =>
                       (pending_text' = buf /\ pc' = "recv" /\ wire' = wire)
                /\ (pending_text = Hello_ /\ HeadFrame.text = world_Foo /\ model_loaded) =>
                       (sentences' = <<Hello_world>> /\ pending_text' = Foo)
                /\ sentence_counter' = sentence_counter]_vars
    /\ []((pc = "chunk" /\ sentences = <<Hello_world>> /\ sentence_counter = 1)
             => (sentence_idx = 0 /\ pending_text = Foo))

\* "Hello " then "world. Foo": "Hello world." is streamed as index 0, "Foo" waits
C9_Witness ==
    /\ pc = "chunk"
    /\ branch = "synthesize_append"
    /\ sentences = <<Hello_world>>
    /\ pending_text = Foo
    /\ wire[Len(wire)] = AudioChunk(0, chunk_samples)

\* frames the server has read
nread == nsent - Len(inbox)

\* C10: nothing is sent before the answer to the first frame; a first frame
\* that is a text auth message with a valid token is answered auth_ok, any
\* other first frame and the 10 s timeout are answered one auth_error, after
\* which the server reads no further frame and sends nothing; synthesize,
\* synthesize_append and stop are read only after auth_ok was sent.
C10_AuthFirst ==
    /\ [](/\ pc = "auth" => (wire = <<>> /\ nread = 0)
          /\ pc \in {"recv", "sentence", "chunk"} => (wire # <<>> /\ wire[1] = AuthOk)
          /\ nread >= 2 => (wire # <<>> /\ wire[1] = AuthOk)
          /\ \A p \in 1..Len(wire) :
                /\ wire[p].type = "auth_error" => (p = 1 /\ Len(wire) = 1 /\ pc = "closed")
                /\ wire[p].type = "auth_ok" => p = 1
                /\ wire[p].type \notin {"auth_ok", "auth_error"} => wire[1] = AuthOk)
    /\ [][(pc = "auth" /\ pc' # "auth") =>
            IF inbox # <<>> /\ HeadFrame.type = "auth" /\ HeadFrame.token = "good"
            THEN wire' = <<AuthOk>> /\ pc' = "recv" /\ inbox' = Tail(inbox)
            ELSE Len(wire') = 1 /\ wire'[1].type = "auth_error" /\ pc' = "closed"]_vars
    /\ [][pc = "closed" => UNCHANGED <<pc, wire, inbox, session>>]_vars

\* the first frame was no valid auth: one auth_error, the connection is closed
\* and the synthesize the client had already written is never read
C10_Witness ==
    /\ pc = "closed"
    /\ Len(wire) = 1
    /\ wire[1].type = "auth_error"
    /\ nread = 1
    /\ inbox # <<>>
    /\ inbox[1].type = "synthesize"

LastSent == wire'[Len(wire')]
SendsOne == Len(wire') = Len(wire) + 1

\* C11: a sentence whose phonemization or synthesis fails ends the request
\* with one error message: the loop returns to the message loop, which goes on
\* reading; the sentence loop is left only by done after the last sentence, by
\* such an error, or silently under the stop latch.
C11_ErrorEndsRequest ==
    /\ [][(InRequest /\ Len(wire') > Len(wire) /\ LastSent.type = "error")
            => /\ SendsOne
               /\ pc' = "recv"
               /\ inbox' = inbox
               /\ LastSent.message[1] \in {"Phonemization failed", "Synthesis failed"}]_vars
    /\ [][(pc = "sentence" /\ pc' = "recv")
            => \/ pos > Len(sentences) /\ SendsOne /\ LastSent = Done
               \/ pos <= Len(sentences) /\ SendsOne /\ LastSent.type = "error"
               \/ pos <= Len(sentences) /\ stop_tx /\ wire' = wire]_vars

\* a request failed with an error and a later request was streamed
C11_Witness ==
    \E p, q \in 1..Len(wire) :
        /\ p < q
        /\ wire[p].type = "error"
        /\ wire[p].message[1] \in {"Phonemization failed", "Synthesis failed"}
        /\ wire[q].type = "word_timing"

TooLong == Error(<<"Synthesis failed", "Token sequence too long">>)

\* C12: after the error of a sentence of more than MAX_STYLE_TOKENS tokens the
\* loop goes on with the remaining sentences of the request.
C12_TooLongContinues ==
    [][(pc = "sentence" /\ wire' = Append(wire, TooLong) /\ pos < Len(sentences))
          => pc' = "sentence"]_vars

NotLoaded == Error(<<"TTS model not loaded">>)

\* C13: when the model is not loaded, a synthesize, and a synthesize_append
\* that has sentences to speak, is answered with the one error
\* "TTS model not loaded"; no request enters the sentence loop, nothing of a
\* sentence is ever sent, and the server goes on reading.
C13_NotLoaded ==
    /\ [](~model_loaded =>
            /\ ~InRequest
            /\ \A p \in 1..Len(wire) :
                  wire[p].type \notin {"word_timing", "audio", "sentence_done", "done"})
    /\ [][(~model_loaded /\ ServerReads("synthesize"))
            => (wire' = Append(wire, NotLoaded) /\ pc' = "recv")]_vars
    /\ [][(/\ ~model_loaded
           /\ ServerReads("synthesize_append")
           /\ append_buffer(pending_text, HeadFrame.text).to_speak # <<>>)
            => (wire' = Append(wire, NotLoaded) /\ pc' = "recv")]_vars

\* two requests were each answered "TTS model not loaded", the second an append
C13_Witness ==
    /\ ~model_loaded
    /\ Len(wire) = 3
    /\ wire[2] = NotLoaded
    /\ wire[3] = NotLoaded
    /\ pending_text = Foo

\* the number of vocabulary characters among the first i characters of p
Hits(p, i) == Cardinality({j \in 1..i : p[j] \in VocabChars})

\* C14: the tokens of a phoneme string start with 0 and end with 0; between
\* them stand the vocabulary ids of its vocabulary characters, in the order of
\* the input, unknown characters being skipped; the length is 2 plus the
\* number of vocabulary characters, so the empty string and a string of
\* unknown characters give <<0, 0>>; no vocabulary id is 0.
C14_Tokenize ==
    /\ \A e \in VocabEntries : e[2] # 0
    /\ ret.fn = "phonemes_to_tokens" =>
          LET p == ret.arg
              tokens == ret.value
          IN  /\ Len(tokens) = 2 + Hits(p, Len(p))
              /\ tokens[1] = 0
              /\ tokens[Len(tokens)] = 0
              /\ \A i \in 1..Len(p) :
                    p[i] \in VocabChars =>
                        /\ tokens[1 + Hits(p, i)] = vocab(p[i])
                        /\ tokens[1 + Hits(p, i)] # 0
              /\ (\A i \in 1..Len(p) : p[i] \notin VocabChars) => tokens = <<0, 0>>

\* "a@ " was tokenized: the unknown character is skipped
C14_Witness ==
    /\ ret.fn = "phonemes_to_tokens"
    /\ ret.arg = <<"a", "@", " ">>
    /\ ret.value = <<0, 43, 16, 0>>

\* the phoneme strings of the live loop with fewer than 3 tokens
ShortPhonemes ==
    {p \in PhonemeOutputs : Len(p) <= MaxPhonemes /\ Len(phonemes_to_tokens(p)) < 3}

\* C15: synthesize of phonemes with fewer than 3 tokens has the one result
\* Ok with no samples, without a run of the session; in the live loop only a
\* sentence of 3 tokens or more is streamed, and a sentence of fewer sends
\* nothing, takes its index, and the loop goes on with the next sentence.
C15_ShortIsSilent ==
    /\ [](\A p \in ShortPhonemes, v \in VoiceBank \cup {"nobody"} :
             synthesize(p, v) = {Ok(0)})
    /\ [](pc = "chunk" => Len(phonemes_to_tokens(phonemes)) >= 3)
    /\ [][(/\ pc = "sentence"
           /\ sentence_counter' = sentence_counter + 1
           /\ phonemes' # <<>>
           /\ Len(phonemes_to_tokens(phonemes')) < 3)
            => /\ wire' = wire
               /\ pc' = "sentence"
               /\ pos' = pos + 1
               /\ sentences' = sentences]_vars

\* the first sentence of a request of two had phonemes outside the vocabulary:
\* nothing was sent for it and the loop stands at the second sentence
C15_Witness ==
    /\ pc = "sentence"
    /\ phonemes = <<"@">>
    /\ Len(sentences) = 2
    /\ pos = 2
    /\ sentence_counter = 1
    /\ wire = <<AuthOk>>

InBank(c) == c.voice \in DOMAIN voices.embeddings

\* C16: a call with more than MAX_STYLE_TOKENS tokens fails with "Token
\* sequence too long", a call with 3..MAX_STYLE_TOKENS tokens and a voice that
\* is not in the bank fails with "Unknown voice"; neither reaches the lock or
\* runs the session; a call that runs the session has 3..MAX_STYLE_TOKENS
\* tokens and a voice of the bank; a call of exactly MAX_STYLE_TOKENS tokens
\* with a voice of the bank runs it.
C16_ChecksBeforeRun ==
    \A t \in Threads :
        LET c == calls[t]
        IN  /\ c.pc \in {"lock", "run"} =>
                  (c.seq_len \in 3..MAX_STYLE_TOKENS /\ InBank(c) /\ ~c.ran)
            /\ c.pc = "returned" =>
                  /\ c.seq_len > MAX_STYLE_TOKENS =>
                        (c.result = Err("Token sequence too long") /\ ~c.ran)
                  /\ (c.seq_len \in 3..MAX_STYLE_TOKENS /\ ~InBank(c)) =>
                        (c.result = Err("Unknown voice") /\ ~c.ran)
                  /\ c.ran => (c.seq_len \in 3..MAX_STYLE_TOKENS /\ InBank(c))
                  /\ (c.seq_len = MAX_STYLE_TOKENS /\ InBank(c)) => c.ran

\* one call of 511 tokens was refused, one of exactly 510 tokens gave audio
C16_Witness ==
    \E t, u \in Threads :
        /\ calls[t].pc = "returned"
        /\ calls[t].seq_len = MAX_STYLE_TOKENS + 1
        /\ calls[t].result = Err("Token sequence too long")
        /\ calls[u].pc = "returned"
        /\ calls[u].seq_len = MAX_STYLE_TOKENS
        /\ calls[u].result.ok
        /\ calls[u].ran

\* C17: get(v, token_len) of a voice of the bank is row
\* min(token_len, MAX_STYLE_TOKENS - 1) of its matrix; get of a voice that is
\* not in the bank is None.
C17_GetRow ==
    ret.fn = "get" =>
        LET v == ret.arg[1]
            token_len == ret.arg[2]
            last_row == MAX_STYLE_TOKENS - 1
        IN  IF v \in DOMAIN voices.embeddings
            THEN ret.value = Some(v, IF token_len < last_row THEN token_len ELSE last_row)
            ELSE ret.value = None

\* C18: after load every voice of the bank has a style matrix of
\* MAX_STYLE_TOKENS rows.
C18_VoiceShape ==
    voices.state = "loaded" =>
        \A v \in DOMAIN voices.embeddings : voices.embeddings[v] = MAX_STYLE_TOKENS

\* C19: at most one call runs the session at a time, and the one that runs it
\* holds the lock; the lock is free again when the run ends, with audio or
\* with an error; a call that waits for the lock comes to run the session.
C19_SessionMutex ==
    /\ [](Cardinality({t \in Threads : calls[t].pc = "run"}) <= 1)
    /\ [](\A t \in Threads : calls[t].pc = "run" <=> session_lock = t)
    /\ [][\A t \in Threads :
            (calls[t].pc = "run" /\ calls'[t].pc # "run")
                => (session_lock' \notin Threads /\ calls'[t].pc = "returned"
                    /\ calls'[t].ran)]_vars
    /\ \A t \in Threads : (calls[t].pc = "lock") ~> (calls[t].pc = "run")

\* C19, amended: at most one call runs the session at a time, and the one
\* that runs it holds the lock; every run ends, and the lock is free again
\* when it ends, with audio, with an error or with a panic; a call that
\* waits takes the lock only when it is free, and after a panic it is
\* refused with "Failed to lock session" and does not run the session.
C19_HeldForTheRun ==
    /\ [](Cardinality({t \in Threads : calls[t].pc = "run"}) <= 1)
    /\ [](\A t \in Threads : calls[t].pc = "run" <=> session_lock = t)
    /\ [][\A t \in Threads :
            (calls[t].pc = "run" /\ calls'[t].pc # "run")
                => (session_lock' \notin Threads /\ calls'[t].pc = "returned"
                    /\ calls'[t].ran)]_vars
    /\ [][\A t \in Threads :
            (calls[t].pc = "lock" /\ calls'[t].pc # "lock")
                => /\ session_lock \notin Threads
                   /\ IF session_lock = Poisoned
                      THEN /\ calls'[t].pc = "returned"
                           /\ calls'[t].result = Err("Failed to lock session")
                           /\ ~calls'[t].ran
                           /\ session_lock' = Poisoned
                      ELSE calls'[t].pc = "run" /\ session_lock' = t]_vars
    /\ \A t \in Threads : (calls[t].pc = "run") ~> (session_lock \notin Threads)

\* a run ended with an error and the lock went to another call, which runs
\* the session
C19_Witness ==
    \E t, u \in Threads :
        /\ calls[t].pc = "returned"
        /\ calls[t].ran
        /\ ~calls[t].result.ok
        /\ calls[u].pc = "run"
        /\ session_lock = u

\* C20: while a request runs the server reads no frame, so a synthesize or
\* synthesize_append written meanwhile waits; the running request keeps its
\* sentences and its voice until it returns, and every frame sent meanwhile
\* is a frame of that request.
C20_OneRequest ==
    /\ [][InRequest => /\ Len(inbox') >= Len(inbox)
                       /\ SubSeq(inbox', 1, Len(inbox)) = inbox]_vars
    /\ [][(InRequest /\ pc' \in {"sentence", "chunk"})
            => /\ branch' = branch
               /\ sentences' = sentences
               /\ voice' = voice
               /\ pos' >= pos
               /\ sentence_counter' >= sentence_counter]_vars
    /\ [][(InRequest /\ Len(wire') > Len(wire))
            => /\ SendsOne
               /\ LastSent.type \in {"word_timing", "audio", "sentence_done", "done", "error"}
               /\ Tagged(LastSent) => LastSent.sentence_index = sentence_counter' - 1]_vars

\* a second request was written while the first streams audio: it waits
C20_Witness ==
    /\ pc = "chunk"
    /\ wire[Len(wire)].type = "audio"
    /\ inbox # <<>>
    /\ HeadFrame.type \in {"synthesize", "synthesize_append"}
    /\ HeadFrame.text # <<>>

(***************************************************************************)
(* Properties of the batch job engine.                                     *)
(***************************************************************************)
\* the requests the contract of submit rejects: a broken multipart body, no
\* text_file field, a speed that does not parse
Rejected(req) ==
    \/ req.broken # "none"
    \/ ~req.text_file
    \/ ~parse_f32(speed_of(req)).ok

\* the job an accepted request was answered with
Answered(response) == response.detail[1]

\* the step of generate_speech answers the request at once
AnswersAtOnce == tasks'.generate_speech = Null

\* C21: POST /generate inserts a job row if and only if the request is
\* accepted: a request without text_file, with a speed that does not parse or
\* with a malformed multipart body is answered 400, leaves the table unchanged
\* and starts no worker; an accepted request is answered {id} with exactly
\* one row {id, processing} inserted before the answer, so that a status read
\* does not answer 404 for it.
C21_InsertIffAccepted ==
    /\ [][Generate =>
            IF AnswersAtOnce
            THEN /\ Rejected(ret'.arg)
                 /\ ret'.value.status = 400
                 /\ jobs' = jobs
                 /\ workers' = workers
            ELSE LET task == tasks'.generate_speech[1]
                 IN  /\ ~Rejected(task.req)
                     /\ task.job_id \notin DOMAIN jobs
                     /\ DOMAIN jobs' = DOMAIN jobs \cup {task.job_id}
                     /\ \A id \in DOMAIN jobs : jobs'[id] = jobs[id]
                     /\ jobs'[task.job_id].status = "processing"]_vars
    /\ [][GenerateSpawn =>
            /\ ~Rejected(ret'.arg)
            /\ ret'.value.status = 200
            /\ Answered(ret'.value) = tasks.generate_speech[1].job_id
            /\ jobs' = jobs
            /\ Answered(ret'.value) \in DOMAIN jobs
            /\ jobs[Answered(ret'.value)].status = "processing"
            /\ workers'[Answered(ret'.value)] = "kokoro-tts"
            /\ check_status_response(jobs', files',
                   StatusRequest(TRUE, Answered(ret'.value))).status # 404]_vars

\* a speed that parses as a finite float
FiniteSpeed(s) == parse_f32(s).ok /\ parse_f32(s).kind = "finite"

\* C22: POST /generate accepts a speed only if it parses as a finite float: a
\* speed that is non-numeric, infinite or NaN is answered 400 and no job is
\* created.
C22_FiniteSpeed ==
    [][Generate =>
        LET req == IF AnswersAtOnce THEN ret'.arg ELSE tasks'.generate_speech[1].req
        IN  ~FiniteSpeed(speed_of(req)) =>
                /\ AnswersAtOnce
                /\ ret'.value.status = 400
                /\ jobs' = jobs
                /\ workers' = workers
    ]_vars

\* C23: in every reachable state of the job table a completed row has a
\* file_path that is not NULL, an error row has an error_message that is not
\* NULL, and every file_path that is not NULL starts with the storage root.
C23_RowInvariant ==
    \A id \in DOMAIN jobs :
        /\ jobs[id].status = "completed" => jobs[id].file_path # Null
        /\ jobs[id].status = "error" => jobs[id].error_message # Null
        /\ jobs[id].file_path # Null =>
                starts_with(jobs[id].file_path[1], storage_path)

\* a completed row and an error row in one table
C23_Witness ==
    \E i, j \in DOMAIN jobs :
        jobs[i].status = "completed" /\ jobs[j].status = "error"

\* the row of a job is still processing
Processing(id) == id \in DOMAIN jobs /\ jobs[id].status = "processing"

\* the request of the job was accepted: its background task was spawned
Spawned(id) == id \in DOMAIN workers /\ workers[id] # "unspawned"

\* C24: every accepted job eventually leaves the processing status; a worker
\* that failed has written status error with an error_message, a worker that
\* succeeded has written status completed with the MP3 path, whatever the
\* other jobs did.
C24_LeavesProcessing ==
    /\ \A id \in JobIds : (Processing(id) /\ Spawned(id)) ~> ~Processing(id)
    /\ [](\A id \in DOMAIN workers \cap DOMAIN jobs :
            workers[id] = "done" =>
                \/ /\ jobs[id].status = "error"
                   /\ jobs[id].error_message # Null
                   /\ jobs[id].file_path = Null
                \/ /\ jobs[id].status = "completed"
                   /\ jobs[id].file_path = Value(mp3_path(id)))

\* a job completed after an earlier job failed
C24_Witness ==
    \E i, j \in DOMAIN jobs :
        /\ i < j
        /\ jobs[i].status = "error"
        /\ jobs[i].error_message = Value("kokoro-tts failed")
        /\ jobs[j].status = "completed"
        /\ workers[j] = "done"

\* C25: GET /status/{id} answers by the row its SELECT returns: 400 when id
\* is not a UUID, 404 when no row has that id, JSON processing for a
\* processing row, JSON error with the message for an error row; for a
\* completed row it goes on to open the file_path of the row, and answers the
\* MP3 stream as audio/mpeg when the file can be opened, 500 when it is
\* missing.
C25_StatusByState ==
    /\ [][StatusSelect =>
            IF tasks'.check_status # Null
            THEN LET task == tasks'.check_status[1]
                     req == task.began.req
                 IN  /\ req.uuid
                     /\ req.id \in DOMAIN jobs
                     /\ jobs[req.id].status = "completed"
                     /\ task.path = jobs[req.id].file_path[1]
                     /\ ~task.opened
            ELSE LET req == ret'.arg.req
                     response == ret'.value
                 IN  IF ~req.uuid THEN response.status = 400
                     ELSE IF req.id \notin DOMAIN jobs THEN response.status = 404
                     ELSE IF jobs[req.id].status = "processing"
                     THEN response.status = 200 /\ response.body = "processing"
                     ELSE /\ jobs[req.id].status = "error"
                          /\ response.status = 200
                          /\ response.body = "error"
                          /\ response.detail = jobs[req.id].error_message]_vars
    /\ [][StatusOpen =>
            IF tasks.check_status[1].path \in files
            THEN /\ tasks'.check_status # Null
                 /\ tasks'.check_status[1].opened
            ELSE /\ tasks'.check_status = Null
                 /\ ret'.fn = "check_status"
                 /\ ret'.value.status = 500]_vars
    /\ [][StatusTouch =>
            /\ tasks'.check_status = Null
            /\ ret'.value.status = 200
            /\ ret'.value.body = "audio/mpeg"
            /\ ret'.value.detail = Value(tasks.check_status[1].path)]_vars

\* a completed row whose file is gone was asked for and answered 500
C25_Witness ==
    /\ ret.fn = "check_status"
    /\ ret.arg.req.uuid
    /\ ret.arg.req.id \in DOMAIN jobs
    /\ jobs[ret.arg.req.id].status = "completed"
    /\ jobs[ret.arg.req.id].file_path[1] \notin files
    /\ ret.value.status = 500

\* C26: a status fetch that serves the audio sets last_accessed_at of the job
\* to now and changes nothing else of the table; every other status fetch (a
\* processing job, an error job, a completed job whose file is missing, a 400,
\* a 404) leaves every row unchanged.
C26_TouchOnlyWhenServed ==
    /\ [][StatusTouch =>
            LET id == ret'.arg.req.id
            IN  /\ id \in DOMAIN jobs
                /\ jobs' = [jobs EXCEPT ![id].last_accessed_at = now]]_vars
    /\ [][(StatusSelect \/ StatusOpen) => jobs' = jobs]_vars

\* the rows a step deleted, as they were
Deleted == [id \in DOMAIN jobs \ DOMAIN jobs' |-> jobs[id]]

\* the paths a run of the sweeper is still to call remove_file for
Pending(t) == IF t.run_cleanup = Null THEN {} ELSE t.run_cleanup[1].pending

\* C27: the sweeper removes no file whose path does not start with the
\* storage root: a file is unlinked only if it is the file_path of a row the
\* run deleted and has the storage root as prefix; rows with a NULL file_path
\* or one outside the root are deleted without any file being removed.
C27_PathContainment ==
    /\ [][SweepDelete =>
            /\ DOMAIN Deleted = expired(jobs, now)
            /\ files' = files
            /\ \A f \in Pending(tasks') :
                /\ starts_with(f, storage_path)
                /\ \E id \in DOMAIN Deleted : Deleted[id].file_path = Value(f)
            /\ (\A id \in DOMAIN Deleted :
                    \/ Deleted[id].file_path = Null
                    \/ ~starts_with(Deleted[id].file_path[1], storage_path))
                => Pending(tasks') = {}]_vars
    /\ [][SweepUnlink =>
            /\ jobs' = jobs
            /\ files' \subseteq files
            /\ files \ files' \subseteq Pending(tasks)
            /\ Pending(tasks') \subseteq Pending(tasks)]_vars

\* a run deleted a row whose file is outside the storage root, and the file
\* is still there
C27_Witness ==
    /\ ret.fn = "run_cleanup"
    /\ \E id \in DOMAIN ret.value.deleted :
        /\ ret.value.deleted[id].file_path # Null
        /\ ~starts_with(ret.value.deleted[id].file_path[1], storage_path)
        /\ ret.value.deleted[id].file_path[1] \in files
    /\ \E id \in DOMAIN ret.value.deleted :
        ret.value.deleted[id].file_path = Null

\* the step is the DELETE of a run of the sweeper that follows a run with no
\* answer of another handler in between
SecondRun == SweepDelete /\ ret.fn = "run_cleanup"

\* C28: a run of the sweeper right after another run, with no operation in
\* between, deletes no row the first run had deleted; back to back, that is
\* when no row has passed the age limit between the DELETE of the first run
\* and its own, it deletes no row and unlinks no file, not even a file the
\* first run failed to remove: it is over with its DELETE, and the table
\* and the storage are unchanged.
C28_SecondRunNoop ==
    [][SecondRun =>
        /\ DOMAIN ret'.value.deleted \cap DOMAIN ret.value.deleted = {}
        /\ (\A id \in DOMAIN jobs :
                now - jobs[id].last_accessed_at > TTL_DAYS
                    => ret.arg - jobs[id].last_accessed_at > TTL_DAYS)
            => /\ jobs' = jobs
               /\ files' = files
               /\ tasks'.run_cleanup = Null
               /\ DOMAIN ret'.value.deleted = {}
               /\ ret'.value.removed = {}
    ]_vars

\* a run right after a run that deleted rows, with a file under the storage
\* root that no row names any more still in the storage
C28_Witness ==
    /\ ret.fn = "run_cleanup"
    /\ ret.arg = now
    /\ ret.value.previous # Null
    /\ ret.value.previous[1] # {}
    /\ DOMAIN ret.value.deleted = {}
    /\ ret.value.removed = {}
    /\ \E f \in files :
         /\ starts_with(f, storage_path)
         /\ \A id \in DOMAIN jobs : jobs[id].file_path # Value(f)

\* C29: the DELETE of the sweeper deletes exactly the rows whose
\* last_accessed_at is more than 7 days before now, whatever their status, and
\* changes no other row; last_accessed_at is never before the creation of the
\* job, so a job created (or served) within the last 7 days is kept.
C29_SweepsExactlyExpired ==
    /\ [][SweepDelete =>
            /\ DOMAIN jobs' =
                {id \in DOMAIN jobs : now - jobs[id].last_accessed_at <= TTL_DAYS}
            /\ \A id \in DOMAIN jobs' : jobs'[id] = jobs[id]
            /\ \A id \in DOMAIN jobs :
                now - jobs[id].created_at <= TTL_DAYS => id \in DOMAIN jobs'
       ]_vars
    /\ [](\A id \in DOMAIN jobs :
            /\ jobs[id].created_at <= jobs[id].last_accessed_at
            /\ jobs[id].last_accessed_at <= now)

\* a run deleted a row that was still processing and kept a row that is
\* exactly 7 days old
C29_Witness ==
    /\ ret.fn = "run_cleanup"
    /\ ret.arg = now
    /\ \E id \in DOMAIN ret.value.deleted :
        ret.value.deleted[id].status = "processing"
    /\ \E id \in DOMAIN jobs : now - jobs[id].last_accessed_at = TTL_DAYS

(***************************************************************************)
(* Properties of the sentence splitter.                                    *)
(***************************************************************************)
\* a string without its whitespace
strip_ws(s) == SelectSeq(s, LAMBDA c : c \notin WhiteSpace)

\* whitespace normalization: every run of whitespace becomes one space, and
\* the ends are trimmed
RECURSIVE collapse_ws(_)
collapse_ws(s) ==
    IF s = <<>> THEN <<>>
    ELSE IF Head(s) \in WhiteSpace
    THEN <<" ">> \o collapse_ws(trim_start(Tail(s)))
    ELSE <<Head(s)>> \o collapse_ws(Tail(s))

normalize_ws(s) == collapse_ws(trim_end(trim_start(s)))

\* the positions of the sentence enders of a text, and what follows the last
EnderPositions(text) == {i \in 1..Len(text) : text[i] \in SentenceEnders}

Trailing(text) ==
    LET last == IF EnderPositions(text) = {} THEN 0
                ELSE CHOOSE i \in EnderPositions(text) :
                        \A j \in EnderPositions(text) : j <= i
    IN  SubSeq(text, last + 1, Len(text))

\* what the claim says of the sentences themselves
SplitShape(text, out) ==
    /\ Len(out) = Cardinality(EnderPositions(text))
                    + (IF strip_ws(Trailing(text)) # <<>> THEN 1 ELSE 0)
    /\ \A i \in 1..Len(out) :
        /\ out[i] # <<>>
        /\ out[i][1] \notin WhiteSpace
        /\ out[i][Len(out[i])] \notin WhiteSpace
        /\ \A k \in 1..(Len(out[i]) - 1) : out[i][k] \notin SentenceEnders
        /\ i < Len(out) => out[i][Len(out[i])] \in SentenceEnders
    /\ strip_ws(Trailing(text)) # <<>> =>
        /\ out # <<>>
        /\ strip_ws(out[Len(out)]) = strip_ws(Trailing(text))
        /\ out[Len(out)][Len(out[Len(out)])] \notin SentenceEnders
    /\ text = TestText => Len(out) = 3
    /\ text = <<>> => out = <<>>

\* C30: split_sentences emits a sentence at every terminator, no
\* sentence is empty or has whitespace at its ends, every sentence but
\* possibly the last ends with a terminator and has no other, trailing text is
\* the last sentence, and the sentences joined by a space are the input up to
\* whitespace normalization.
C30_SplitTotal ==
    ret.fn = "split_sentences" =>
        /\ SplitShape(ret.arg, ret.value)
        /\ normalize_ws(join(ret.value, <<" ">>)) = normalize_ws(ret.arg)

(***************************************************************************)
(* The audio frames of a sentence.                                         *)
(***************************************************************************)
RECURSIVE Sum(_)
Sum(q) == IF q = <<>> THEN 0 ELSE Head(q) + Sum(Tail(q))

\* the position of the last word_timing frame on the wire, 0 if there is none
LastTiming(w) ==
    LET at == {i \in 1..Len(w) : w[i].type = "word_timing"}
    IN  IF at = {} THEN 0 ELSE CHOOSE i \in at : \A j \in at : j <= i

\* the audio frames sent for the sentence whose word timings were sent last
AudioSent(w) ==
    SelectSeq(SubSeq(w, LastTiming(w) + 1, Len(w)), LAMBDA f : f.type = "audio")

\* the chunk lengths of an audio of S samples: all but the last are whole
Chunked(S) ==
    [k \in 1..((S + chunk_samples - 1) \div chunk_samples) |->
        IF k * chunk_samples <= S THEN chunk_samples ELSE S - (k - 1) * chunk_samples]

from_le_bytes(b) == b[1] + 256 * b[2] + 65536 * b[3] + 16777216 * b[4]

\* C31: while the chunks of a sentence are streamed, the frames sent so far
\* are the first chunks of the audio in order: the audio of S samples (what
\* was sent plus what is left) goes out as ceil(S / 2400) frames, all but the
\* last of 2400 samples and the last of 1 to 2400, every frame made of the
\* sentence index as four little-endian bytes and four bytes per sample.
C31_ChunkFrames ==
    pc = "chunk" =>
        LET sent == AudioSent(wire)
            S == Sum([i \in 1..Len(sent) |-> sent[i].samples]) + audio_left
        IN  /\ S \in ModelOutputs
            /\ Len(sent) <= Len(Chunked(S))
            /\ audio_left = 0 => Len(sent) = Len(Chunked(S))
            /\ \A i \in 1..Len(sent) :
                 /\ sent[i].samples = Chunked(S)[i]
                 /\ sent[i].samples \in 1..chunk_samples
                 /\ i < Len(Chunked(S)) => sent[i].samples = chunk_samples
                 /\ sent[i].sentence_index = sentence_idx
                 /\ from_le_bytes(binary_data(sent[i].sentence_index, sent[i].samples).index)
                      = sentence_idx
                 /\ binary_data(sent[i].sentence_index, sent[i].samples).len
                      = 4 + 4 * sent[i].samples

\* an audio of two chunks was sent whole: a frame of 2400 samples, then the
\* last frame of one sample, for the second sentence of the session
C31_Witness ==
    /\ pc = "chunk"
    /\ audio_left = 0
    /\ sentence_idx = 1
    /\ Len(AudioSent(wire)) = MaxChunks
    /\ AudioSent(wire)[1].samples = chunk_samples
    /\ AudioSent(wire)[MaxChunks].samples = 1

(***************************************************************************)
(* phonemizer.rs: estimate_word_timings, called on its own.                *)
(***************************************************************************)
\* text.split_whitespace().collect(): the maximal runs of non-whitespace
RECURSIVE split_ws_scan(_, _, _)
split_ws_scan(text, i, word) ==
    IF i > Len(text)
    THEN IF word = <<>> THEN <<>> ELSE <<word>>
    ELSE IF text[i] \in WhiteSpace
         THEN IF word = <<>> THEN split_ws_scan(text, i + 1, <<>>)
              ELSE <<word>> \o split_ws_scan(text, i + 1, <<>>)
         ELSE split_ws_scan(text, i + 1, Append(word, text[i]))

split_whitespace(text) == split_ws_scan(text, 1, <<>>)

\* the UTF-8 length of a character: the ideographic full stop takes three bytes
utf8_len(c) == IF c = "U+3002" THEN 3 ELSE 1

\* word.len(): the length of a str in bytes
RECURSIVE len(_)
len(word) == IF word = <<>> THEN 0 ELSE utf8_len(Head(word)) + len(Tail(word))

\* sample counts whose quotient by 24000, times 1000.0, is a double below
\* the integer it equals in exact arithmetic (24024 gives 1000.9999999999999)
F64BelowMs == {24024}

\* (total_samples as f64 / sample_rate as f64 * 1000.0) as u32, at 24 kHz
total_ms(total_samples, sample_rate) ==
    IF total_samples \in F64BelowMs /\ sample_rate = SAMPLE_RATE
    THEN (total_samples * 1000) \div sample_rate - 1
    ELSE (total_samples * 1000) \div sample_rate

\* operands <<total_ms, word length, total length>> whose product
\* total_ms * (length / total) is a double below the integer it equals in
\* exact arithmetic (90 * (7 / 10) gives 62.99999999999999); total lengths
\* below 20 and the durations of TimingSamples
F64BelowProduct == {<<90, 7, 10>>, <<170, 7, 10>>}

\* word_ratio = word.len() as f64 / total_chars as f64;
\* word_duration = (total_ms as f64 * word_ratio) as u32
word_duration(ms, word_len, total_chars) ==
    IF <<ms, word_len, total_chars>> \in F64BelowProduct
    THEN (ms * word_len) \div total_chars - 1
    ELSE (ms * word_len) \div total_chars

\* the loop over the words: (word, start_ms, end_ms), current_ms advancing
RECURSIVE timings_from(_, _, _, _, _)
timings_from(words, i, current_ms, ms, total_chars) ==
    IF i > Len(words) THEN <<>>
    ELSE LET end_ms == current_ms + word_duration(ms, len(words[i]), total_chars)
         IN  <<[word |-> words[i], start_ms |-> current_ms, end_ms |-> end_ms]>>
                 \o timings_from(words, i + 1, end_ms, ms, total_chars)

RECURSIVE total_len(_)
total_len(words) == IF words = <<>> THEN 0 ELSE len(Head(words)) + total_len(Tail(words))

estimate_word_timings(text, total_samples, sample_rate) ==
    LET words == split_whitespace(text)
    IN  IF words = <<>> THEN <<>>
        ELSE IF total_len(words) = 0 THEN <<>>
        ELSE timings_from(words, 1, 0, total_ms(total_samples, sample_rate),
                          total_len(words))

\* audio lengths: none, less than a millisecond, one millisecond, 90 ms,
\* 100 ms, 170 ms, a second, a second and a millisecond
TimingSamples == {0, 1, 24, 2160, 2400, 4080, 24000, 24024}

TimingAlphabet == {"a", " ", "U+3002"}

\* the text of the unit test; a text of a word of seven and a word of three
TimingTestText == <<"H", "e", "l", "l", "o", " ", "w", "o", "r", "l", "d">>
abcdefg_abc == <<"a", "b", "c", "d", "e", "f", "g", " ", "a", "b", "c">>

TimingTexts ==
    UNION {[1..n -> TimingAlphabet] : n \in 0..MaxText} \cup {TimingTestText, abcdefg_abc}

TimingCall(text, total_samples) ==
    [text |-> text, total_samples |-> total_samples, sample_rate |-> SAMPLE_RATE]

InitTimings ==
    /\ Accepted
    /\ Started
    /\ model_loaded = FALSE
    /\ voices = Unloaded
    /\ session_lock = 0
    /\ calls = [t \in Threads |-> Idle]
    /\ ret \in {Given("estimate_word_timings", TimingCall(text, n)) :
                  text \in TimingTexts, n \in TimingSamples}
    /\ NoBatch

Estimate ==
    /\ ret.fn = "given"
    /\ ret' = Returned("estimate_word_timings", ret.arg,
                       estimate_word_timings(ret.arg.text, ret.arg.total_samples,
                                             ret.arg.sample_rate))
    /\ UNCHANGED <<connection, jwks_cache, tasks, batch, model_loaded, voices, session_lock, calls>>

SpecTimings == InitTimings /\ [][Estimate]_vars

\* C32: the timings have one entry per whitespace-separated word, in order;
\* the first starts at 0 and each starts where the previous ends; the
\* duration of a word is total_ms times its length over the sum of the
\* lengths, rounded down, with total_ms = total_samples * 1000 / sample_rate
\* rounded down; start <= end, the last end is at most total_ms, and a text
\* without words has no entries.
C32_Timings ==
    ret.fn = "estimate_word_timings" =>
        LET out == ret.value
            words == split_whitespace(ret.arg.text)
            ms == (ret.arg.total_samples * 1000) \div ret.arg.sample_rate
            total == total_len(words)
        IN  /\ Len(out) = Len(words)
            /\ words = <<>> => out = <<>>
            /\ \A i \in 1..Len(out) :
                 /\ out[i].word = words[i]
                 /\ out[i].start_ms = (IF i = 1 THEN 0 ELSE out[i - 1].end_ms)
                 /\ out[i].start_ms <= out[i].end_ms
                 /\ out[i].end_ms - out[i].start_ms = (ms * len(words[i])) \div total
            /\ out # <<>> => out[Len(out)].end_ms <= ms

(***************************************************************************)
(* Properties of the session of a client that goes away.                   *)
(***************************************************************************)
\* the step phonemizes the next sentence of the request
Phonemizes ==
    /\ pc = "sentence"
    /\ pos <= Len(sentences)
    /\ ~stop_tx
    /\ sentence_counter' = sentence_counter + 1

\* C33: once the client is gone during a request, no sentence of the request
\* is phonemized but the one that was in flight when it went; the request
\* then ends without a frame and the session closes.
C33_NoWorkAfterDisconnect ==
    /\ [][(gone >= 0 /\ Phonemizes) => sentence_counter = gone]_vars
    /\ [][peer_gone => wire' = wire]_vars

(***************************************************************************)
(* auth.rs: validate_token and the JWKS cache of AppState.  A key is the   *)
(* pair of its kid and its generation at the identity provider; time is    *)
(* the age of the cache in seconds.                                        *)
(***************************************************************************)
CacheSecs == 3600

Kids == {"k1", "k2"}
Generations == {1, 2}

\* what decode_header finds: no header, a header without kid, a kid; the
\* generation of the key that signed the token; and its claims: those of a
\* KeycloakClaims with exp ahead and the audience of the service ("valid"),
\* with exp behind, with another audience, or claims that are no
\* KeycloakClaims (a required field is missing)
Token(header, kid, signed, claims) ==
    [header |-> header, kid |-> kid, signed |-> signed, claims |-> claims]
Tokens ==
    {Token(FALSE, Null, 1, "valid"), Token(TRUE, Null, 1, "valid")}
        \cup {Token(TRUE, Value(k), g, "valid") : k \in Kids, g \in Generations}
        \cup {Token(TRUE, Value("k1"), 1, c) :
                  c \in {"expired", "other audience", "no KeycloakClaims"}}

\* the results of fetch_jwks: the request fails, the body does not parse, or
\* the RSA keys of the realm by kid
KeySets == UNION {[S -> Generations] : S \in SUBSET Kids}
JwksResponses ==
    {Err("Failed to fetch JWKS"), Err("Failed to parse JWKS")}
    \cup {[ok |-> TRUE, keys |-> ks] : ks \in KeySets}

cache_lookup_any_age(cache, kid) ==
    IF kid \in DOMAIN cache.keys THEN Value(cache.keys[kid]) ELSE Null

\* the block that reads the cache: the key of the kid if the cache holds it
\* and was fetched less than an hour ago
cache_lookup(cache, kid) ==
    IF kid \in DOMAIN cache.keys
    THEN IF cache.last_fetched # Null
         THEN IF cache.last_fetched[1] < CacheSecs THEN Value(cache.keys[kid]) ELSE Null
         ELSE Null
    ELSE Null

\* what a call returns; fetched tells whether fetch_jwks was called, key is
\* the decoding key the token was checked with
Validated(ok, err, key, fetched) ==
    [ok |-> ok, err |-> err, key |-> key, fetched |-> fetched]

\* decode::<KeycloakClaims>(token, &decoding_key, &validation), with
\* validate_exp and the audience of the service: the signature is checked
\* with the key, then the claims
decode(token, key, fetched) ==
    IF key # token.signed
    THEN Validated(FALSE, "Token validation failed: InvalidSignature", Value(key), fetched)
    ELSE IF token.claims = "expired"
    THEN Validated(FALSE, "Token validation failed: ExpiredSignature", Value(key), fetched)
    ELSE IF token.claims = "other audience"
    THEN Validated(FALSE, "Token validation failed: InvalidAudience", Value(key), fetched)
    ELSE IF token.claims # "valid"
    THEN Validated(FALSE, "Token validation failed: missing field", Value(key), fetched)
    ELSE Validated(TRUE, "", Value(key), fetched)

\* the locals of validate_token across its awaits: the token, where the call
\* stands ("fetch": inside fetch_jwks, "write": before the write lock of the
\* cache), and the keys it fetched
Validating(token, at, keys) == [token |-> token, at |-> at, keys |-> keys]

\* the calls of validate_token that are between two awaits, as a bag: calls
\* of different requests may hold the same locals
validating == tasks.validate_token

\* a call reaches an await, a call leaves it
awaits(call) == validating (+) SetToBag({call})
resumes(call) == validating (-) SetToBag({call})

\* validate_token up to the end of the block that reads the cache: the call
\* returns when the header is bad or when the cache gave the key, and goes on
\* to fetch_jwks otherwise; the read lock is released before the fetch
AuthRead ==
    /\ BagCardinality(validating) < MaxThreads
    /\ \E token \in Tokens :
         IF ~token.header
         THEN /\ ret' = Returned("validate_token", token,
                            Validated(FALSE, "Invalid token header", Null, FALSE))
              /\ UNCHANGED tasks
         ELSE IF token.kid = Null
         THEN /\ ret' = Returned("validate_token", token,
                            Validated(FALSE, "Token missing kid", Null, FALSE))
              /\ UNCHANGED tasks
         ELSE LET cached == cache_lookup(jwks_cache, token.kid[1])
              IN  IF cached # Null
                  THEN /\ ret' = Returned("validate_token", token,
                                     decode(token, cached[1], FALSE))
                       /\ UNCHANGED tasks
                  ELSE /\ tasks' = [tasks EXCEPT !.validate_token =
                               awaits(Validating(token, "fetch", NoCache.keys))]
                       /\ UNCHANGED ret
    /\ UNCHANGED <<connection, batch, engine, jwks_cache>>

\* fetch_jwks returns: the call returns when the fetch failed or does not
\* hold the kid, and goes on to the write lock otherwise
AuthFetch(call) ==
    /\ BagIn(call, validating)
    /\ call.at = "fetch"
    /\ \E response \in JwksResponses :
         IF ~response.ok
         THEN /\ ret' = Returned("validate_token", call.token,
                            Validated(FALSE, response.err, Null, TRUE))
              /\ tasks' = [tasks EXCEPT !.validate_token = resumes(call)]
         ELSE IF call.token.kid[1] \notin DOMAIN response.keys
         THEN /\ ret' = Returned("validate_token", call.token,
                            Validated(FALSE, "Key with kid not found", Null, TRUE))
              /\ tasks' = [tasks EXCEPT !.validate_token = resumes(call)]
         ELSE /\ tasks' = [tasks EXCEPT !.validate_token =
                              resumes(call) (+) SetToBag(
                                  {Validating(call.token, "write", response.keys)})]
              /\ UNCHANGED ret
    /\ UNCHANGED <<connection, batch, engine, jwks_cache>>

\* the write of the cache with the fetched keys, and decode
AuthWrite(call) ==
    /\ BagIn(call, validating)
    /\ call.at = "write"
    /\ jwks_cache' = [keys |-> call.keys, last_fetched |-> Value(0)]
    /\ ret' = Returned("validate_token", call.token,
                       decode(call.token, call.keys[call.token.kid[1]], TRUE))
    /\ tasks' = [tasks EXCEPT !.validate_token = resumes(call)]
    /\ UNCHANGED <<connection, batch, engine>>

\* the ages that matter: just fetched, a second short of the hour, the hour
next_age(e) == IF e < CacheSecs - 1 THEN CacheSecs - 1 ELSE CacheSecs

\* time passes: last_fetched.elapsed() grows
Elapse ==
    /\ jwks_cache.last_fetched # Null
    /\ jwks_cache.last_fetched[1] < CacheSecs
    /\ jwks_cache' = [jwks_cache EXCEPT !.last_fetched = Value(next_age(@[1]))]
    /\ UNCHANGED <<connection, batch, kokoro, tasks>>

\* the requests through auth_middleware and the auth messages of the live
\* sessions call validate_token concurrently
NextAuth ==
    \/ AuthRead
    \/ \E call \in BagToSet(validating) : AuthFetch(call)
    \/ \E call \in BagToSet(validating) : AuthWrite(call)
    \/ Elapse

SpecAuth == Init /\ [][NextAuth]_vars

\* the cache holds the kid and was fetched less than an hour ago
Fresh(cache, kid) ==
    /\ kid \in DOMAIN cache.keys
    /\ cache.last_fetched # Null
    /\ cache.last_fetched[1] < 3600

\* the calls that reach an await in the step, and the calls that leave one
Awaiting ==
    {call \in BagToSet(tasks'.validate_token) :
        CopiesIn(call, tasks'.validate_token) > CopiesIn(call, validating)}
Resuming ==
    {call \in BagToSet(validating) :
        CopiesIn(call, tasks'.validate_token) < CopiesIn(call, validating)}

\* the step is the start of a call, up to the end of the cache read
Reads_cache == Resuming = {} /\ jwks_cache' = jwks_cache

\* C34: a token with a kid is checked with the cached key exactly when the
\* cache, as the call reads it, holds the kid and was fetched less than an
\* hour ago, and the JWKS is fetched otherwise; the cache is replaced (by the
\* fetched keys, with a new fetch time) exactly by a call whose fetch
\* succeeded and contains the kid; a failed fetch or a kid the fetch does not
\* contain rejects the token and leaves the cache as it was.
C34_CacheDiscipline ==
    /\ [][Reads_cache =>
            IF Awaiting # {}
            THEN \A call \in Awaiting :
                     /\ call.token.header
                     /\ call.token.kid # Null
                     /\ ~Fresh(jwks_cache, call.token.kid[1])
                     /\ call.at = "fetch"
            ELSE LET token == ret'.arg
                     r == ret'.value
                 IN  /\ ~r.fetched
                     /\ IF ~token.header \/ token.kid = Null
                        THEN ~r.ok /\ r.key = Null
                        ELSE /\ Fresh(jwks_cache, token.kid[1])
                             /\ r.key = Value(jwks_cache.keys[token.kid[1]])]_vars
    /\ [][\A call \in Resuming : call.at = "fetch" =>
            /\ jwks_cache' = jwks_cache
            /\ IF Awaiting # {}
               THEN \A next \in Awaiting :
                        /\ next.token = call.token
                        /\ next.at = "write"
                        /\ next.token.kid[1] \in DOMAIN next.keys
               ELSE /\ ret'.arg = call.token
                    /\ ~ret'.value.ok
                    /\ ret'.value.fetched
                    /\ ret'.value.key = Null]_vars
    /\ [][\A call \in Resuming : call.at = "write" =>
            /\ Awaiting = {}
            /\ jwks_cache' = [keys |-> call.keys, last_fetched |-> Value(0)]
            /\ ret'.arg = call.token
            /\ ret'.value.fetched
            /\ ret'.value.key = Value(call.keys[call.token.kid[1]])]_vars
    /\ [][jwks_cache'.keys # jwks_cache.keys =>
            \E call \in Resuming : call.at = "write"]_vars

\* a token was accepted with the key of a cache one second short of the
\* hour, while another call had fetched the key of that kid in another
\* generation and was about to write it
C34_Witness ==
    /\ ret.fn = "validate_token"
    /\ ret.value.ok
    /\ ~ret.value.fetched
    /\ jwks_cache.last_fetched = Value(CacheSecs - 1)
    /\ \E call \in BagToSet(validating) :
         /\ call.at = "write"
         /\ ret.arg.kid[1] \in DOMAIN call.keys
         /\ call.keys[ret.arg.kid[1]] # ret.value.key[1]

(***************************************************************************)
(* A session whose client sends append messages only, each when the       *)
(* request of the one before has ended; ret keeps all the text appended    *)
(* and the sentences handed to handle_synthesize so far.                   *)
(***************************************************************************)
a_b_ == <<"a", ".", " ", "b", " ">>
c_ == <<"c", ".">>

\* texts of append messages: those of the session, a text that ends in the
\* whitespace after a fragment, a sentence
AppendInputs == AppendTexts \cup {a_b_, c_}

InitAppend ==
    /\ pc = "recv"
    /\ inbox = <<>>
    /\ nsent = 0
    /\ wire = <<AuthOk>>
    /\ stop_tx = FALSE
    /\ sentence_counter = 0
    /\ pending_text = <<>>
    /\ branch = "none"
    /\ sentences = <<>>
    /\ pos = 1
    /\ voice = ""
    /\ sentence_idx = 0
    /\ phonemes = <<>>
    /\ audio_left = 0
    /\ reset_at = 0
    /\ silent = {}
    /\ stop_arrival = -1
    /\ gone = -1
    /\ Started
    /\ model_loaded \in BOOLEAN
    /\ voices = StandardVoices
    /\ session_lock = 0
    /\ calls = [t \in Threads |-> Idle]
    /\ ret = Returned("synthesize_append", <<>>, <<>>)
    /\ NoBatch

\* the SynthesizeAppend branch on a message the client has just written:
\* pending_text.push_str(&text), the split of the buffer, and the call of
\* handle_synthesize on to_speak.join(" "), which splits it again
AppendText ==
    /\ pc = "recv"
    /\ nsent < MaxMsgs
    /\ nsent' = nsent + 1
    /\ sentence_counter' = append_counter(sentence_counter)
    /\ \E text \in AppendInputs :
         LET r == append_buffer(pending_text, text)
         IN  /\ pending_text' = r.pending
             /\ ret' = Returned("synthesize_append", ret.arg \o text,
                                ret.value \o split_sentences(join(r.to_speak, <<" ">>)))
             /\ IF r.to_speak # <<>>
                THEN handle_synthesize("synthesize_append", join(r.to_speak, <<" ">>),
                                       "af_heart")
                ELSE UNCHANGED <<pc, wire, gone, locals>>
    /\ UNCHANGED <<inbox, stop_tx, history, engine, batch, jwks_cache, tasks>>

\* the appends, and the sentence loop and the chunk loop of their requests
NextAppend ==
    \/ AppendText
    \/ SentenceStep
    \/ ChunkStep

SpecAppend == InitAppend /\ [][NextAppend]_vars

\* C35: the sentences handed to synthesis so far, followed by the sentences
\* of the pending buffer, are split_sentences of all the text appended.
C35_NothingLost ==
    ret.fn = "synthesize_append" =>
        ret.value \o split_sentences(pending_text) = split_sentences(ret.arg)

(***************************************************************************)
(* The end of a live request.                                              *)
(***************************************************************************)
Terminal(f) == f.type \in {"done", "error"}

\* C36: a request that reached the sentence loop returns to the message
\* loop in exactly one way: with done as its last frame when all its
\* sentences were gone through, with one error when a step failed, or with
\* no frame when the stop latch cut it; until it returns it sends neither
\* done nor error, so never both; and an append that only buffers text
\* sends nothing and starts no request.
C36_OneEnding ==
    /\ [][Len(wire') >= Len(wire) /\ SubSeq(wire', 1, Len(wire)) = wire]_vars
    /\ [][(InRequest /\ pc' = "recv") =>
            \/ /\ Added = <<Done>>
               /\ pc = "sentence"
               /\ pos > Len(sentences)
            \/ /\ Len(Added) = 1
               /\ Added[1].type = "error"
               /\ pc = "sentence"
               /\ pos <= Len(sentences)
               /\ ~stop_tx
            \/ /\ Added = <<>>
               /\ stop_tx]_vars
    /\ [][(InRequest /\ pc' # "recv") =>
            \A i \in 1..Len(Added) : ~Terminal(Added[i])]_vars
    /\ [][(/\ pc = "recv"
           /\ inbox # <<>>
           /\ inbox' = Tail(inbox)
           /\ Head(inbox).type = "synthesize_append"
           /\ append_buffer(pending_text, Head(inbox).text).to_speak = <<>>) =>
            wire' = wire /\ pc' = "recv"]_vars

\* a request ended with an error after its first sentence was streamed, and
\* sent no done
C36_Witness ==
    /\ pc = "recv"
    /\ Len(wire) >= 2
    /\ wire[Len(wire)].type = "error"
    /\ wire[Len(wire) - 1].type = "sentence_done"

(***************************************************************************)
(* Frames the message loop does not act on.                                *)
(***************************************************************************)
\* the message loop reads a frame of the type
Reads(type) ==
    /\ pc = "recv"
    /\ inbox # <<>>
    /\ Head(inbox).type = type
    /\ inbox' = Tail(inbox)

\* C40: in an authenticated session a repeated auth message and a binary
\* frame get no reply, a text frame that is no client message gets exactly
\* one error; the sentence counter, the pending buffer and the stop latch
\* stay as they were and the session goes on reading.
C40_IgnoredFrames ==
    /\ [][(Reads("auth") \/ Reads("binary")) =>
            wire' = wire /\ UNCHANGED session /\ pc' = "recv"]_vars
    /\ [][Reads("invalid") =>
            /\ Len(wire') = Len(wire) + 1
            /\ SubSeq(wire', 1, Len(wire)) = wire
            /\ wire'[Len(wire')].type = "error"
            /\ UNCHANGED session
            /\ pc' = "recv"]_vars

\* an unparsable frame was answered with an error after a request had taken
\* sentence indices: the counter is kept and the session reads on
C40_Witness ==
    /\ pc = "recv"
    /\ inbox = <<>>
    /\ nsent = MaxMsgs
    /\ wire[Len(wire)] = Error(<<"Invalid message">>)
    /\ sentence_counter > 0

(***************************************************************************)
(* The status of a job.                                                    *)
(***************************************************************************)
\* the step is the end of the background task of the job
WorkerEnds(id) ==
    /\ id \in DOMAIN workers
    /\ workers[id] # "done"
    /\ workers'[id] = "done"

\* C37: a row is created as processing; its status changes at most once, in
\* a step of the background task of that job, from processing to completed
\* or to error, and never after; a row never holds both a file_path and an
\* error_message.
C37_StatusForward ==
    /\ [][\A id \in DOMAIN jobs' :
            IF id \in DOMAIN jobs
            THEN jobs'[id].status # jobs[id].status =>
                   /\ jobs[id].status = "processing"
                   /\ jobs'[id].status \in {"completed", "error"}
                   /\ WorkerEnds(id)
            ELSE jobs'[id].status = "processing"]_vars
    /\ [](\A id \in DOMAIN jobs :
            /\ jobs[id].file_path = Null \/ jobs[id].error_message = Null
            /\ jobs[id].status = "processing" =>
                 jobs[id].file_path = Null /\ jobs[id].error_message = Null)

\* one job completed and one job failed, both background tasks are over
C37_Witness ==
    \E a, b \in DOMAIN jobs :
        /\ jobs[a].status = "completed"
        /\ jobs[a].file_path # Null
        /\ jobs[b].status = "error"
        /\ jobs[b].error_message # Null
        /\ workers[a] = "done"
        /\ workers[b] = "done"

(***************************************************************************)
(* The files of the storage and the rows that reference them.              *)
(***************************************************************************)
\* C38: every file a background task has left in the storage directory (the
\* task is over) is the file_path of a row of the jobs table, whatever the
\* order of workers, encoder failures and sweeps.
C38_EveryFileHasRow ==
    \A f \in files :
        \/ \E id \in DOMAIN jobs : jobs[id].file_path = Value(f)
        \/ \E id \in DOMAIN workers : workers[id] # "done" /\ f = mp3_path(id)

(***************************************************************************)
(* A status read and a sweep over a table that holds jobs of every status: *)
(* each awaits the database and the file system in turn, and the pool      *)
(* gives each statement its own connection, so the statements of the two   *)
(* interleave.                                                             *)
(***************************************************************************)
\* the rows a job may have when the read begins
OverlapRows(id) ==
    {Row("processing", Null, Null, 0, 0),
     Row("error", Value("ffmpeg failed"), Null, 0, 0)}
    \cup {Row("completed", Null, Value(mp3_path(id)), 0, t) : t \in {0, 1}}

OverlapTables ==
    UNION {{t \in [ids -> UNION {OverlapRows(id) : id \in ids}] :
              \A id \in ids : t[id] \in OverlapRows(id)} : ids \in SUBSET JobIds}

InitOverlap ==
    /\ Accepted
    /\ Started
    /\ model_loaded = FALSE
    /\ voices = Unloaded
    /\ session_lock = 0
    /\ calls = [t \in Threads |-> Idle]
    /\ ret = NoCall
    /\ jobs \in OverlapTables
    /\ files \in SUBSET {mp3_path(id) : id \in JobIds}
    /\ workers = NoRows
    /\ now = 1

NextOverlap ==
    \/ StatusSelect
    \/ StatusOpen
    \/ StatusTouch
    \/ SweepDelete
    \/ SweepUnlink
    \/ TickBetween

SpecOverlap == InitOverlap /\ [][NextOverlap]_vars

\* a status read that had found a completed row answers
AnswersCompleted ==
    /\ tasks.check_status # Null
    /\ tasks'.check_status = Null

\* C39: a status read that found a completed row, overlapping a sweep or
\* not, either serves the audio and leaves the row present with
\* last_accessed_at set to now, or answers that the job is gone; it does not
\* answer 500 when the row and the file were both there as it began, and it
\* leaves no served job without its row.
C39_ReadAndSweep ==
    [][AnswersCompleted =>
        LET began == ret'.arg
            response == ret'.value
            id == began.req.id
        IN  /\ \/ /\ response.body = "audio/mpeg"
                  /\ id \in DOMAIN jobs'
                  /\ jobs'[id].last_accessed_at = now
               \/ response.status = 404
               \/ response.status = 500 /\ ~began.file]_vars

====
